---- MODULE Spec2Model ----
(***************************************************************************)
(* Profile sanitizer, consistency checker, new-profile wizard, profiles    *)
(* page and file-backed profile store of the Camoufox UI, the store both   *)
(* one call at a time and under concurrent requests.                       *)
(*                                                                         *)
(* JavaScript values are records [t, n, s]: t is the runtime type, n the   *)
(* numeric payload, s the string payload as a sequence of characters.      *)
(* device_pixel_ratio is the only fractional quantity; it is counted in    *)
(* hundredths (1.0 is 100, 1.25 is 125) and every other number is an       *)
(* integer.                                                                *)
(* A nested object that is absent behaves, under the optional chaining the *)
(* code uses for every access, like one whose properties are all           *)
(* undefined, and is written that way.                                     *)
(***************************************************************************)
EXTENDS Integers, Sequences, FiniteSets, TLC

VARIABLES
    store,        \* profiles directory: profile id -> content of <id>.json
    otherFiles,   \* number of further profile files, under ids no request names
    clock,        \* wall clock read by new Date()
    last,         \* the storage call that returned last, with its result
    draft,        \* input of a sanitizeProfile call
    sanitized,    \* what that call returned
    draft2,       \* input of a second sanitizeProfile call
    sanitized2,   \* what the second call returned
    pc,           \* position of the sanitizer or checker test
    page,         \* the page the browser shows: "new" (the wizard) or "profiles"
    currentStep,  \* wizard: index of the step shown, 0..5
    formData,     \* wizard: the form state
    consistencyIssues,  \* wizard: the issues state, set by the effect on formData
    submitted,    \* whether handleCreate ran, and whether from a form with an error
    localStorage, \* profiles handleCreate appended to the item "camoufox_profiles"
    localOthers,  \* number of profiles that item held before
    profiles,     \* profiles page: ids of the listing fetchProfiles received
    disk,         \* concurrent requests: the profile files, each as the writes it holds
    savers,       \* concurrent requests: position of each saveProfile call
    deleter,      \* concurrent requests: position of the deleteProfile call
    runner,       \* concurrent requests: position of the run request
    runningProfiles,  \* profiles page: the runningProfiles state
    launchRequests,   \* profiles page: launch requests sent and not yet answered, by id
    removalTimers,    \* profiles page: pending setTimeout callbacks of handleRun, by id
    lastRun           \* profiles page: the last Run click and whether it sent a request

wizardVars ==
    <<page, currentStep, formData, consistencyIssues, submitted, localStorage, localOthers,
      profiles>>

serverVars == <<disk, savers, deleter, runner>>

runVars == <<runningProfiles, launchRequests, removalTimers, lastRun>>

requestVars == <<serverVars, runVars>>

storageVars == <<store, otherFiles, clock, last>>

sanitizerVars == <<draft, sanitized, draft2, sanitized2>>

vars ==
    <<store, otherFiles, clock, last, draft, sanitized, draft2, sanitized2, pc, page,
      currentStep, formData, consistencyIssues, submitted, localStorage, localOthers, profiles,
      disk, savers, deleter, runner, runningProfiles, launchRequests, removalTimers, lastRun>>

----------------------------------------------------------------------------
(* Bounds of the model *)

MaxClock == 1
NumUUIDs == 2
Headroom == 2
MaxLaunches == 2

----------------------------------------------------------------------------
(* VALIDATION (profile-types.ts) *)

MAX_STRING_LENGTH == 5000
MAX_PROFILE_NAME_LENGTH == 200
MAX_NOTES_LENGTH == 10000
MAX_PROFILES == 100
MIN_SCREEN_DIM == 100
MAX_SCREEN_DIM == 10000
MIN_DPR_HUNDREDTHS == 50
MAX_DPR_HUNDREDTHS == 400

----------------------------------------------------------------------------
(* JavaScript values *)

Undefined == [t |-> "undefined", n |-> 0, s |-> <<>>]
Null == [t |-> "null", n |-> 0, s |-> <<>>]
NaN == [t |-> "NaN", n |-> 0, s |-> <<>>]
Num(k) == [t |-> "number", n |-> k, s |-> <<>>]
Str(q) == [t |-> "string", n |-> 0, s |-> q]
Bool(b) == [t |-> "boolean", n |-> IF b THEN 1 ELSE 0, s |-> <<>>]
Obj(k) == [t |-> "object", n |-> k, s |-> <<>>]

\* An array-valued property (navigator.languages).
NoArray == [t |-> "undefined", items |-> <<>>]
Arr(items) == [t |-> "array", items |-> items]

\* An array that holds the one string q, where a scalar property is expected.
ArrayOf(q) == [t |-> "stringArray", n |-> 0, s |-> q]

\* ToBoolean: undefined, null, NaN, 0, "" and false are falsy.
Truthy(v) ==
    CASE v.t = "number" -> v.n # 0
      [] v.t = "string" -> v.s # <<>>
      [] v.t = "boolean" -> v.n = 1
      [] v.t = "object" -> TRUE
      [] v.t = "stringArray" -> TRUE
      [] OTHER -> FALSE

\* a || b
JsOr(a, b) == IF Truthy(a) THEN a ELSE b

IsWhitespace(c) == c \in {" ", "\t", "\n"}

RECURSIVE TrimStart(_)
TrimStart(q) ==
    IF q # <<>> /\ IsWhitespace(Head(q)) THEN TrimStart(Tail(q)) ELSE q

RECURSIVE TrimEnd(_)
TrimEnd(q) ==
    IF q # <<>> /\ IsWhitespace(q[Len(q)]) THEN TrimEnd(SubSeq(q, 1, Len(q) - 1)) ELSE q

\* String.prototype.trim
Trim(q) == TrimEnd(TrimStart(q))

\* String.prototype.slice(0, maxLength), maxLength >= 0
Slice(q, maxLength) == SubSeq(q, 1, IF Len(q) < maxLength THEN Len(q) ELSE maxLength)

\* String.prototype.includes
Includes(q, sub) ==
    \E i \in 1..(Len(q) - Len(sub) + 1) : SubSeq(q, i, i + Len(sub) - 1) = sub

DigitValue(c) ==
    CASE c = "0" -> 0 [] c = "1" -> 1 [] c = "2" -> 2 [] c = "3" -> 3 [] c = "4" -> 4
      [] c = "5" -> 5 [] c = "6" -> 6 [] c = "7" -> 7 [] c = "8" -> 8 [] c = "9" -> 9

IsDigit(c) == c \in {"0", "1", "2", "3", "4", "5", "6", "7", "8", "9"}

RECURSIVE DigitsValue(_)
DigitsValue(q) ==
    IF q = <<>> THEN 0 ELSE 10 * DigitsValue(SubSeq(q, 1, Len(q) - 1)) + DigitValue(q[Len(q)])

\* ToNumber, as Math.min, Math.max and the binary minus apply it: a string is
\* trimmed and read as a decimal integer, and is NaN when it is anything else.
ToNumber(v) ==
    CASE v.t = "number" -> v
      [] v.t = "null" -> Num(0)
      [] v.t = "boolean" -> Num(v.n)
      [] v.t = "string" ->
            LET q == Trim(v.s) IN
            IF q = <<>> THEN Num(0)
            ELSE IF \A i \in 1..Len(q) : IsDigit(q[i]) THEN Num(DigitsValue(q))
            ELSE IF Head(q) = "-" /\ Len(q) > 1 /\ \A i \in 2..Len(q) : IsDigit(q[i])
                 THEN Num(0 - DigitsValue(Tail(q)))
            ELSE NaN
      [] OTHER -> NaN

\* Math.min(a, b) and Math.max(a, b): NaN when either argument is NaN.
MathMin(a, b) ==
    LET x == ToNumber(a)
        y == ToNumber(b)
    IN  IF x.t = "NaN" \/ y.t = "NaN" THEN NaN ELSE IF x.n < y.n THEN x ELSE y

MathMax(a, b) ==
    LET x == ToNumber(a)
        y == ToNumber(b)
    IN  IF x.t = "NaN" \/ y.t = "NaN" THEN NaN ELSE IF x.n > y.n THEN x ELSE y

\* a - b
Minus(a, b) ==
    LET x == ToNumber(a)
        y == ToNumber(b)
    IN  IF x.t = "NaN" \/ y.t = "NaN" THEN NaN ELSE Num(x.n - y.n)

----------------------------------------------------------------------------
(* profile-types.ts *)

\* sanitizeString throws a TypeError when str is truthy and has no slice/trim,
\* which is every truthy value that is not a string.
sanitizeStringThrows(str) == Truthy(str) /\ str.t # "string"

sanitizeString(str, maxLength) ==
    IF ~Truthy(str) THEN str ELSE Str(Trim(Slice(str.s, maxLength)))

\* Variant of validateScreenDim that forgets the upper bound.
validateScreenDim_NoUpperBound(value) == MathMax(Num(MIN_SCREEN_DIM), value)

validateScreenDim(value) ==
    MathMax(Num(MIN_SCREEN_DIM), MathMin(value, Num(MAX_SCREEN_DIM)))

validateDPR(value) ==
    MathMax(Num(MIN_DPR_HUNDREDTHS), MathMin(value, Num(MAX_DPR_HUNDREDTHS)))

\* The characters generateUUID draws for the x and y places of its pattern.
HexChar(k) ==
    CASE k = 1 -> "a" [] k = 2 -> "b" [] k = 3 -> "c" [] k = 4 -> "d" [] k = 5 -> "e"
      [] OTHER -> "f"

\* A version-4 UUID, shortened to one random digit, the version and the variant.
UUID(k) == <<HexChar(k), "-", "4", "-", "8">>

\* generateUUID draws at random: any of these on any call.
UUIDs == {UUID(k) : k \in 1..NumUUIDs}

PROFILE_SCHEMA_VERSION == <<"1", ".", "0", ".", "0">>


----------------------------------------------------------------------------
(* String literals of sanitizeProfile *)

S_macos == <<"m", "a", "c", "o", "s">>
S_windows == <<"w", "i", "n", "d", "o", "w", "s">>
S_linux == <<"l", "i", "n", "u", "x">>
S_none == <<"n", "o", "n", "e">>
S_http == <<"h", "t", "t", "p">>
S_socks5 == <<"s", "o", "c", "k", "s", "5">>
S_disabled == <<"d", "i", "s", "a", "b", "l", "e", "d">>
S_proxy_only == <<"p", "r", "o", "x", "y", "_", "o", "n", "l", "y">>
S_default == <<"d", "e", "f", "a", "u", "l", "t">>
S_firefox == <<"f", "i", "r", "e", "f", "o", "x">>
S_PerfilSemNome == <<"P", "e", "r", "f", "i", "l", " ", "s", "e", "m", " ", "n", "o", "m", "e">>
S_en == <<"e", "n">>
S_enUS == <<"e", "n", "-", "U", "S">>
S_US == <<"U", "S">>
S_AmericaNewYork == <<"A", "m", "e", "r", "i", "c", "a", "/", "N", "e", "w", "_", "Y", "o", "r", "k">>

validOS == {S_macos, S_windows, S_linux}
validProxyTypes == {S_none, S_http, S_socks5}
validWebRTCModes == {S_disabled, S_proxy_only, S_default}
validColorDepths == {8, 16, 24, 30, 32}

\* Variant of IncludesString that trims the value before comparing.
IncludesString_Trimmed(literals, v) == v.t = "string" /\ Trim(v.s) \in literals

\* Array.prototype.includes over an array of string literals (strict equality).
IncludesString(literals, v) == v.t = "string" /\ v.s \in literals

\* new Date().toISOString(), shortened to a marker and the clock reading.
DigitChar(k) ==
    CASE k = 0 -> "0" [] k = 1 -> "1" [] k = 2 -> "2" [] k = 3 -> "3" [] k = 4 -> "4"
      [] k = 5 -> "5" [] k = 6 -> "6" [] k = 7 -> "7" [] k = 8 -> "8" [] OTHER -> "9"

toISOString(k) == Str(<<"T", DigitChar(k)>>)

----------------------------------------------------------------------------
(* ProfileConfig and Partial<ProfileConfig> *)

\* The draft {}: every property undefined.
EmptyDraft ==
    [ id |-> Undefined, name |-> Undefined, notes |-> Undefined, version |-> Undefined,
      created_at |-> Undefined, updated_at |-> Undefined, target_os |-> Undefined,
      browser_family |-> Undefined,
      navigator |-> [ user_agent |-> Undefined, platform |-> Undefined, oscpu |-> Undefined,
                      hardware_concurrency |-> Undefined, max_touch_points |-> Undefined,
                      languages |-> NoArray ],
      screen |-> [ width |-> Undefined, height |-> Undefined, avail_width |-> Undefined,
                   avail_height |-> Undefined, device_pixel_ratio |-> Undefined,
                   color_depth |-> Undefined ],
      locale |-> [ language |-> Undefined, region |-> Undefined, timezone |-> Undefined ],
      webgl |-> [ enabled |-> Undefined, vendor |-> Undefined, renderer |-> Undefined ],
      proxy |-> [ type |-> Undefined, server |-> Undefined, username |-> Undefined,
                  password |-> Undefined ],
      webrtc |-> [ mode |-> Undefined, spoof_ipv4 |-> Undefined, spoof_ipv6 |-> Undefined ],
      storage |-> [ user_data_dir |-> Undefined, persistent_cookies |-> Undefined ],
      startup_url |-> Undefined, startup_script |-> Undefined, custom_config |-> Undefined ]

----------------------------------------------------------------------------
(* sanitizeProfile *)

\* The arguments sanitizeProfile hands to sanitizeString, in the order of the code.
sanitizeStringArguments(input) ==
    << JsOr(input.name, Str(S_PerfilSemNome)),
       JsOr(input.notes, Str(<<>>)),
       JsOr(input.navigator.user_agent, Str(<<>>)),
       JsOr(input.navigator.platform, Str(<<>>)),
       JsOr(input.navigator.oscpu, Str(<<>>)) >>
    \o (IF input.navigator.languages.t = "array"
        THEN SubSeq(input.navigator.languages.items, 1,
                    IF Len(input.navigator.languages.items) < 10
                    THEN Len(input.navigator.languages.items) ELSE 10)
        ELSE <<>>)
    \o << JsOr(input.locale.language, Str(S_en)),
          JsOr(input.locale.region, Str(S_US)),
          JsOr(input.locale.timezone, Str(S_AmericaNewYork)),
          JsOr(input.webgl.vendor, Str(<<>>)),
          JsOr(input.webgl.renderer, Str(<<>>)),
          JsOr(input.proxy.server, Str(<<>>)),
          input.proxy.username,
          input.proxy.password,
          input.webrtc.spoof_ipv4,
          input.webrtc.spoof_ipv6,
          input.storage.user_data_dir,
          input.startup_url,
          input.startup_script >>

\* sanitizeProfile throws (a TypeError) exactly when one of its sanitizeString calls does.
sanitizeProfileThrows(input) ==
    LET arguments == sanitizeStringArguments(input)
    IN  \E i \in 1..Len(arguments) : sanitizeStringThrows(arguments[i])

\* Variant of idOrGenerated that ignores the supplied id.
idOrGenerated_AlwaysGenerated(input, uuid) == Str(uuid)

\* Variant of idOrGenerated written with ?? in place of ||: an empty id is kept.
idOrGenerated_Nullish(input, uuid) ==
    IF input.id.t \in {"undefined", "null"} THEN Str(uuid) ELSE input.id

\* const id = input.id || generateUUID()
idOrGenerated(input, uuid) == JsOr(input.id, Str(uuid))

\* created_at: input.created_at || now
createdAt(input, now) == JsOr(input.created_at, toISOString(now))

\* The record sanitizeProfile returns when it does not throw. now is the clock
\* reading of new Date(); uuid is what generateUUID() returns if it is called.
sanitizeProfileRecord(input, now, uuid) ==
    [ id |-> idOrGenerated(input, uuid),
      name |-> sanitizeString(JsOr(input.name, Str(S_PerfilSemNome)), MAX_PROFILE_NAME_LENGTH),
      notes |-> sanitizeString(JsOr(input.notes, Str(<<>>)), MAX_NOTES_LENGTH),
      version |-> Str(PROFILE_SCHEMA_VERSION),
      created_at |-> createdAt(input, now),
      updated_at |-> toISOString(now),
      target_os |-> IF IncludesString(validOS, JsOr(input.target_os, Str(<<>>)))
                    THEN input.target_os ELSE Str(S_windows),
      browser_family |-> Str(S_firefox),
      navigator |->
        [ user_agent |-> sanitizeString(JsOr(input.navigator.user_agent, Str(<<>>)),
                                        MAX_STRING_LENGTH),
          platform |-> sanitizeString(JsOr(input.navigator.platform, Str(<<>>)),
                                      MAX_STRING_LENGTH),
          oscpu |-> sanitizeString(JsOr(input.navigator.oscpu, Str(<<>>)), MAX_STRING_LENGTH),
          hardware_concurrency |->
              MathMax(Num(1), MathMin(JsOr(input.navigator.hardware_concurrency, Num(8)),
                                      Num(128))),
          max_touch_points |->
              MathMax(Num(0), MathMin(JsOr(input.navigator.max_touch_points, Num(0)),
                                      Num(20))),
          languages |->
              IF input.navigator.languages.t = "array"
              THEN LET items == input.navigator.languages.items
                       kept == SubSeq(items, 1, IF Len(items) < 10 THEN Len(items) ELSE 10)
                   IN  Arr([i \in 1..Len(kept) |-> sanitizeString(kept[i], 20)])
              ELSE Arr(<<Str(S_enUS), Str(S_en)>>) ],
      screen |->
        [ width |-> validateScreenDim(JsOr(input.screen.width, Num(1920))),
          height |-> validateScreenDim(JsOr(input.screen.height, Num(1080))),
          avail_width |->
              validateScreenDim(JsOr(input.screen.avail_width,
                                     JsOr(input.screen.width, Num(1920)))),
          avail_height |->
              validateScreenDim(JsOr(input.screen.avail_height,
                                     Minus(JsOr(input.screen.height, Num(1080)), Num(40)))),
          device_pixel_ratio |-> validateDPR(JsOr(input.screen.device_pixel_ratio, Num(100))),
          color_depth |->
              LET depth == JsOr(input.screen.color_depth, Num(24))
              IN  IF depth.t = "number" /\ depth.n \in validColorDepths
                  THEN depth ELSE Num(24) ],
      locale |->
        [ language |-> sanitizeString(JsOr(input.locale.language, Str(S_en)), 10),
          region |-> sanitizeString(JsOr(input.locale.region, Str(S_US)), 10),
          timezone |-> sanitizeString(JsOr(input.locale.timezone, Str(S_AmericaNewYork)),
                                      100) ],
      webgl |->
        [ enabled |-> Bool(~(input.webgl.enabled.t = "boolean" /\ input.webgl.enabled.n = 0)),
          vendor |-> sanitizeString(JsOr(input.webgl.vendor, Str(<<>>)), MAX_STRING_LENGTH),
          renderer |-> sanitizeString(JsOr(input.webgl.renderer, Str(<<>>)),
                                      MAX_STRING_LENGTH) ],
      proxy |->
        [ type |-> IF IncludesString(validProxyTypes, JsOr(input.proxy.type, Str(<<>>)))
                   THEN input.proxy.type ELSE Str(S_none),
          server |-> sanitizeString(JsOr(input.proxy.server, Str(<<>>)), 500),
          username |-> IF Truthy(input.proxy.username)
                       THEN sanitizeString(input.proxy.username, 200) ELSE Null,
          password |-> IF Truthy(input.proxy.password)
                       THEN sanitizeString(input.proxy.password, 200) ELSE Null ],
      webrtc |->
        [ mode |-> IF IncludesString(validWebRTCModes, JsOr(input.webrtc.mode, Str(<<>>)))
                   THEN input.webrtc.mode ELSE Str(S_default),
          spoof_ipv4 |-> IF Truthy(input.webrtc.spoof_ipv4)
                         THEN sanitizeString(input.webrtc.spoof_ipv4, 50) ELSE Null,
          spoof_ipv6 |-> IF Truthy(input.webrtc.spoof_ipv6)
                         THEN sanitizeString(input.webrtc.spoof_ipv6, 100) ELSE Null ],
      storage |->
        [ user_data_dir |-> IF Truthy(input.storage.user_data_dir)
                            THEN sanitizeString(input.storage.user_data_dir, 500) ELSE Null,
          persistent_cookies |->
              Bool(~(input.storage.persistent_cookies.t = "boolean"
                     /\ input.storage.persistent_cookies.n = 0)) ],
      startup_url |-> IF Truthy(input.startup_url)
                      THEN sanitizeString(input.startup_url, 2000) ELSE Undefined,
      startup_script |-> IF Truthy(input.startup_script)
                         THEN sanitizeString(input.startup_script, 10000) ELSE Undefined,
      custom_config |-> JsOr(input.custom_config, Undefined) ]

\* A call's outcome: kind "ok" with the record returned, or the error thrown.
Returned(rec) == [kind |-> "ok", rec |-> rec]
Thrown(kind) == [kind |-> kind, rec |-> EmptyDraft]

sanitizeProfile(input, now, uuid) ==
    IF sanitizeProfileThrows(input)
    THEN Thrown("TypeError")
    ELSE Returned(sanitizeProfileRecord(input, now, uuid))


----------------------------------------------------------------------------
(* Consistency checker of the new-profile wizard: validateConsistency *)

LowerChar(c) ==
    CASE c = "A" -> "a" [] c = "B" -> "b" [] c = "C" -> "c" [] c = "D" -> "d" [] c = "E" -> "e"
      [] c = "F" -> "f" [] c = "G" -> "g" [] c = "H" -> "h" [] c = "I" -> "i" [] c = "J" -> "j"
      [] c = "K" -> "k" [] c = "L" -> "l" [] c = "M" -> "m" [] c = "N" -> "n" [] c = "O" -> "o"
      [] c = "P" -> "p" [] c = "Q" -> "q" [] c = "R" -> "r" [] c = "S" -> "s" [] c = "T" -> "t"
      [] c = "U" -> "u" [] c = "V" -> "v" [] c = "W" -> "w" [] c = "X" -> "x" [] c = "Y" -> "y"
      [] c = "Z" -> "z" [] OTHER -> c

\* String.prototype.toLowerCase
toLowerCase(q) == [i \in 1..Len(q) |-> LowerChar(q[i])]

S_MacIntel == <<"M", "a", "c", "I", "n", "t", "e", "l">>
S_MacPPC == <<"M", "a", "c", "P", "P", "C">>
S_Win32 == <<"W", "i", "n", "3", "2">>
S_Win64 == <<"W", "i", "n", "6", "4">>
S_Linux == <<"L", "i", "n", "u", "x">>
S_Macintosh == <<"M", "a", "c", "i", "n", "t", "o", "s", "h">>
S_MacOSX == <<"M", "a", "c", " ", "O", "S", " ", "X">>
S_WindowsNT == <<"W", "i", "n", "d", "o", "w", "s", " ", "N", "T">>
S_X11 == <<"X", "1", "1">>
S_direct3d == <<"d", "i", "r", "e", "c", "t", "3", "d">>
S_angle == <<"a", "n", "g", "l", "e">>
S_apple_m == <<"a", "p", "p", "l", "e", " ", "m">>

\* osPatterns[os]; the empty sequence stands for undefined (os is not a key).
osPatterns(os) ==
    CASE os = Str(S_macos) -> <<S_MacIntel, S_MacPPC>>
      [] os = Str(S_windows) -> <<S_Win32, S_Win64>>
      [] os = Str(S_linux) -> <<S_Linux>>
      [] OTHER -> <<>>

\* uaPatterns[os]
uaPatterns(os) ==
    CASE os = Str(S_macos) -> <<S_Macintosh, S_MacOSX>>
      [] os = Str(S_windows) -> <<S_WindowsNT>>
      [] os = Str(S_linux) -> <<S_Linux, S_X11>>
      [] OTHER -> <<>>

\* patterns.some((p) => value.includes(p))
SomeIncluded(patterns, value) == \E i \in 1..Len(patterns) : Includes(value.s, patterns[i])

\* A template literal or string literal: its text and the values of its ${...} parts.
Text(text, args) == [text |-> text, args |-> args]

\* patterns.join(", "), kept as the list of the joined strings
Joined(patterns) == [i \in 1..Len(patterns) |-> Str(patterns[i])]

Issue(level, message, field, suggestion) ==
    [level |-> level, message |-> message, field |-> field, suggestion |-> suggestion]

\* Variant of platformIssues without the test that data.platform is non-empty.
platformIssues_NoBlankTest(data) ==
    IF osPatterns(data.os) # <<>> /\ ~SomeIncluded(osPatterns(data.os), data.platform)
    THEN << Issue("error",
                  Text("Platform \"${data.platform}\" does not match OS \"${data.os}\"",
                       <<data.platform, data.os>>),
                  "platform",
                  Text("Use one of: ${osPatterns[data.os].join(\", \")}",
                       Joined(osPatterns(data.os)))) >>
    ELSE <<>>

\* OS/Platform check
platformIssues(data) ==
    IF Truthy(data.platform) /\ osPatterns(data.os) # <<>>
       /\ ~SomeIncluded(osPatterns(data.os), data.platform)
    THEN << Issue("error",
                  Text("Platform \"${data.platform}\" does not match OS \"${data.os}\"",
                       <<data.platform, data.os>>),
                  "platform",
                  Text("Use one of: ${osPatterns[data.os].join(\", \")}",
                       Joined(osPatterns(data.os)))) >>
    ELSE <<>>

\* OS/User-Agent check
userAgentIssues(data) ==
    IF Truthy(data.userAgent) /\ uaPatterns(data.os) # <<>>
       /\ ~SomeIncluded(uaPatterns(data.os), data.userAgent)
    THEN << Issue("error",
                  Text("User-Agent does not contain expected patterns for \"${data.os}\"",
                       <<data.os>>),
                  "userAgent",
                  Text("User-Agent should contain one of: ${uaPatterns[data.os].join(\", \")}",
                       Joined(uaPatterns(data.os)))) >>
    ELSE <<>>

\* Variant of webglIssues that compares the renderer as written, without toLowerCase.
webglIssues_CaseSensitive(data) ==
    IF ~Truthy(data.webglRenderer) THEN <<>>
    ELSE (IF data.os = Str(S_macos)
             /\ (Includes(data.webglRenderer.s, S_direct3d)
                   \/ Includes(data.webglRenderer.s, S_angle))
          THEN << Issue("error", Text("Direct3D/ANGLE renderer detected with macOS target", <<>>),
                        "webglRenderer",
                        Text("macOS typically uses Apple GPU or OpenGL renderers", <<>>)) >>
          ELSE <<>>)
         \o (IF data.os = Str(S_windows) /\ Includes(data.webglRenderer.s, S_apple_m)
             THEN << Issue("error", Text("Apple renderer detected with Windows target", <<>>),
                           "webglRenderer",
                           Text("Windows typically uses ANGLE (Direct3D) or native GPU renderers",
                                <<>>)) >>
             ELSE <<>>)

\* WebGL/OS check
webglIssues(data) ==
    IF ~Truthy(data.webglRenderer) THEN <<>>
    ELSE (IF data.os = Str(S_macos)
             /\ (Includes(toLowerCase(data.webglRenderer.s), S_direct3d)
                   \/ Includes(toLowerCase(data.webglRenderer.s), S_angle))
          THEN << Issue("error", Text("Direct3D/ANGLE renderer detected with macOS target", <<>>),
                        "webglRenderer",
                        Text("macOS typically uses Apple GPU or OpenGL renderers", <<>>)) >>
          ELSE <<>>)
         \o (IF data.os = Str(S_windows)
                /\ Includes(toLowerCase(data.webglRenderer.s), S_apple_m)
             THEN << Issue("error", Text("Apple renderer detected with Windows target", <<>>),
                           "webglRenderer",
                           Text("Windows typically uses ANGLE (Direct3D) or native GPU renderers",
                                <<>>)) >>
             ELSE <<>>)

\* Device pixel ratio check for macOS
devicePixelRatioIssues(data) ==
    IF data.os = Str(S_macos) /\ data.devicePixelRatio # Num(100)
       /\ data.devicePixelRatio # Num(200)
    THEN << Issue("warning",
                  Text("Device pixel ratio ${data.devicePixelRatio} is unusual for macOS",
                       <<data.devicePixelRatio>>),
                  "devicePixelRatio",
                  Text("macOS typically uses 1.0 (standard) or 2.0 (Retina)", <<>>)) >>
    ELSE <<>>

\* Variant of webrtcIssues that does not look at the WebRTC mode.
webrtcIssues_AnyMode(data) ==
    IF data.proxyType # Str(S_none) /\ Truthy(data.proxyAddress)
    THEN << Issue("warning", Text("WebRTC is enabled with proxy but mode is 'default'", <<>>),
                  "webrtcMode",
                  Text("Consider setting webrtc mode to 'disabled' or 'proxy_only' to prevent IP leaks",
                       <<>>)) >>
    ELSE <<>>

\* WebRTC/Proxy check
webrtcIssues(data) ==
    IF data.proxyType # Str(S_none) /\ Truthy(data.proxyAddress)
       /\ data.webrtcMode = Str(S_default)
    THEN << Issue("warning", Text("WebRTC is enabled with proxy but mode is 'default'", <<>>),
                  "webrtcMode",
                  Text("Consider setting webrtc mode to 'disabled' or 'proxy_only' to prevent IP leaks",
                       <<>>)) >>
    ELSE <<>>

\* Variant of validateConsistency that stops at the first check that finds an issue.
validateConsistency_FirstOnly(data) ==
    IF platformIssues(data) # <<>> THEN platformIssues(data)
    ELSE IF userAgentIssues(data) # <<>> THEN userAgentIssues(data)
    ELSE IF webglIssues(data) # <<>> THEN webglIssues(data)
    ELSE IF devicePixelRatioIssues(data) # <<>> THEN devicePixelRatioIssues(data)
    ELSE webrtcIssues(data)

\* validateConsistency(data): the issues, in the order the checks push them.
validateConsistency(data) ==
    platformIssues(data) \o userAgentIssues(data) \o webglIssues(data)
      \o devicePixelRatioIssues(data) \o webrtcIssues(data)

\* consistencyIssues.some((i) => i.level === "error")
someError(issues) == \E i \in 1..Len(issues) : issues[i].level = "error"

----------------------------------------------------------------------------
(* New-profile wizard: templates, presets and form state *)

UA_MacFirefox133 ==
    <<"M", "o", "z", "i", "l", "l", "a", "/", "5", ".", "0", " ", "(", "M", "a", "c", "i", "n",
      "t", "o", "s", "h", ";", " ", "I", "n", "t", "e", "l", " ", "M", "a", "c", " ", "O", "S",
      " ", "X", " ", "1", "0", ".", "1", "5", ";", " ", "r", "v", ":", "1", "3", "3", ".", "0",
      ")", " ", "G", "e", "c", "k", "o", "/", "2", "0", "1", "0", "0", "1", "0", "1", " ", "F",
      "i", "r", "e", "f", "o", "x", "/", "1", "3", "3", ".", "0">>
UA_WindowsFirefox133 ==
    <<"M", "o", "z", "i", "l", "l", "a", "/", "5", ".", "0", " ", "(", "W", "i", "n", "d", "o",
      "w", "s", " ", "N", "T", " ", "1", "0", ".", "0", ";", " ", "W", "i", "n", "6", "4", ";",
      " ", "x", "6", "4", ";", " ", "r", "v", ":", "1", "3", "3", ".", "0", ")", " ", "G", "e",
      "c", "k", "o", "/", "2", "0", "1", "0", "0", "1", "0", "1", " ", "F", "i", "r", "e", "f",
      "o", "x", "/", "1", "3", "3", ".", "0">>
UA_LinuxFirefox133 ==
    <<"M", "o", "z", "i", "l", "l", "a", "/", "5", ".", "0", " ", "(", "X", "1", "1", ";", " ",
      "L", "i", "n", "u", "x", " ", "x", "8", "6", "_", "6", "4", ";", " ", "r", "v", ":", "1",
      "3", "3", ".", "0", ")", " ", "G", "e", "c", "k", "o", "/", "2", "0", "1", "0", "0", "1",
      "0", "1", " ", "F", "i", "r", "e", "f", "o", "x", "/", "1", "3", "3", ".", "0">>
S_OscpuMac ==
    <<"I", "n", "t", "e", "l", " ", "M", "a", "c", " ", "O", "S", " ", "X", " ", "1", "0", ".",
      "1", "5">>
S_OscpuWindows ==
    <<"W", "i", "n", "d", "o", "w", "s", " ", "N", "T", " ", "1", "0", ".", "0", ";", " ", "W",
      "i", "n", "6", "4", ";", " ", "x", "6", "4">>
S_LinuxX86_64 == <<"L", "i", "n", "u", "x", " ", "x", "8", "6", "_", "6", "4">>
S_AppleInc == <<"A", "p", "p", "l", "e", " ", "I", "n", "c", ".">>
S_AppleM1 == <<"A", "p", "p", "l", "e", " ", "M", "1">>
S_GoogleNvidia ==
    <<"G", "o", "o", "g", "l", "e", " ", "I", "n", "c", ".", " ", "(", "N", "V", "I", "D", "I",
      "A", ")">>
S_GoogleIntel ==
    <<"G", "o", "o", "g", "l", "e", " ", "I", "n", "c", ".", " ", "(", "I", "n", "t", "e", "l",
      ")">>
S_Mesa == <<"M", "e", "s", "a">>
Renderer_AngleNvidia ==
    <<"A", "N", "G", "L", "E", " ", "(", "N", "V", "I", "D", "I", "A", ",", " ", "N", "V", "I",
      "D", "I", "A", " ", "G", "e", "F", "o", "r", "c", "e", " ", "R", "T", "X", " ", "3", "0",
      "6", "0", " ", "D", "i", "r", "e", "c", "t", "3", "D", "1", "1", " ", "v", "s", "_", "5",
      "_", "0", " ", "p", "s", "_", "5", "_", "0", ",", " ", "D", "3", "D", "1", "1", ")">>
Renderer_AngleIntel ==
    <<"A", "N", "G", "L", "E", " ", "(", "I", "n", "t", "e", "l", ",", " ", "I", "n", "t", "e",
      "l", "(", "R", ")", " ", "U", "H", "D", " ", "G", "r", "a", "p", "h", "i", "c", "s", " ",
      "6", "3", "0", " ", "D", "i", "r", "e", "c", "t", "3", "D", "1", "1", " ", "v", "s", "_",
      "5", "_", "0", " ", "p", "s", "_", "5", "_", "0", ",", " ", "D", "3", "D", "1", "1", ")">>
Renderer_MesaIntel ==
    <<"M", "e", "s", "a", " ", "I", "n", "t", "e", "l", "(", "R", ")", " ", "U", "H", "D", " ",
      "G", "r", "a", "p", "h", "i", "c", "s", " ", "6", "2", "0", " ", "(", "K", "B", "L", " ",
      "G", "T", "2", ")">>
S_AmericaLosAngeles ==
    <<"A", "m", "e", "r", "i", "c", "a", "/", "L", "o", "s", "_", "A", "n", "g", "e", "l", "e",
      "s">>
T_macos_apple_silicon ==
    <<"m", "a", "c", "o", "s", "_", "a", "p", "p", "l", "e", "_", "s", "i", "l", "i", "c", "o",
      "n">>
T_macos_standard == <<"m", "a", "c", "o", "s", "_", "s", "t", "a", "n", "d", "a", "r", "d">>
T_windows_11_nvidia ==
    <<"w", "i", "n", "d", "o", "w", "s", "_", "1", "1", "_", "n", "v", "i", "d", "i", "a">>
T_windows_11_intel ==
    <<"w", "i", "n", "d", "o", "w", "s", "_", "1", "1", "_", "i", "n", "t", "e", "l">>
T_linux_desktop == <<"l", "i", "n", "u", "x", "_", "d", "e", "s", "k", "t", "o", "p">>
T_custom == <<"c", "u", "s", "t", "o", "m">>
MAC_MODERN_BASE_UA ==
    <<"M", "o", "z", "i", "l", "l", "a", "/", "5", ".", "0", " ", "(", "M", "a", "c", "i", "n",
      "t", "o", "s", "h", ";", " ", "I", "n", "t", "e", "l", " ", "M", "a", "c", " ", "O", "S",
      " ", "X", " ", "1", "4", "_", "0", ")", " ", "A", "p", "p", "l", "e", "W", "e", "b", "K",
      "i", "t", "/", "5", "3", "7", ".", "3", "6", " ", "(", "K", "H", "T", "M", "L", ",", " ",
      "l", "i", "k", "e", " ", "G", "e", "c", "k", "o", ")", " ", "C", "h", "r", "o", "m", "e",
      "/", "1", "2", "0", ".", "0", ".", "0", ".", "0", " ", "S", "a", "f", "a", "r", "i", "/",
      "5", "3", "7", ".", "3", "6">>
UA_WindowsChrome120 ==
    <<"M", "o", "z", "i", "l", "l", "a", "/", "5", ".", "0", " ", "(", "W", "i", "n", "d", "o",
      "w", "s", " ", "N", "T", " ", "1", "0", ".", "0", ";", " ", "W", "i", "n", "6", "4", ";",
      " ", "x", "6", "4", ")", " ", "A", "p", "p", "l", "e", "W", "e", "b", "K", "i", "t", "/",
      "5", "3", "7", ".", "3", "6", " ", "(", "K", "H", "T", "M", "L", ",", " ", "l", "i", "k",
      "e", " ", "G", "e", "c", "k", "o", ")", " ", "C", "h", "r", "o", "m", "e", "/", "1", "2",
      "0", ".", "0", ".", "0", ".", "0", " ", "S", "a", "f", "a", "r", "i", "/", "5", "3", "7",
      ".", "3", "6">>
UA_WindowsFirefox125 ==
    <<"M", "o", "z", "i", "l", "l", "a", "/", "5", ".", "0", " ", "(", "W", "i", "n", "d", "o",
      "w", "s", " ", "N", "T", " ", "1", "0", ".", "0", ";", " ", "W", "i", "n", "6", "4", ";",
      " ", "x", "6", "4", ";", " ", "r", "v", ":", "1", "2", "5", ".", "0", ")", " ", "G", "e",
      "c", "k", "o", "/", "2", "0", "1", "0", "0", "1", "0", "1", " ", "F", "i", "r", "e", "f",
      "o", "x", "/", "1", "2", "5", ".", "0">>
UA_MacFirefox125 ==
    <<"M", "o", "z", "i", "l", "l", "a", "/", "5", ".", "0", " ", "(", "M", "a", "c", "i", "n",
      "t", "o", "s", "h", ";", " ", "I", "n", "t", "e", "l", " ", "M", "a", "c", " ", "O", "S",
      " ", "X", " ", "1", "4", ".", "0", ";", " ", "r", "v", ":", "1", "2", "5", ".", "0", ")",
      " ", "G", "e", "c", "k", "o", "/", "2", "0", "1", "0", "0", "1", "0", "1", " ", "F", "i",
      "r", "e", "f", "o", "x", "/", "1", "2", "5", ".", "0">>
UA_LinuxChrome120 ==
    <<"M", "o", "z", "i", "l", "l", "a", "/", "5", ".", "0", " ", "(", "X", "1", "1", ";", " ",
      "L", "i", "n", "u", "x", " ", "x", "8", "6", "_", "6", "4", ")", " ", "A", "p", "p", "l",
      "e", "W", "e", "b", "K", "i", "t", "/", "5", "3", "7", ".", "3", "6", " ", "(", "K", "H",
      "T", "M", "L", ",", " ", "l", "i", "k", "e", " ", "G", "e", "c", "k", "o", ")", " ", "C",
      "h", "r", "o", "m", "e", "/", "1", "2", "0", ".", "0", ".", "0", ".", "0", " ", "S", "a",
      "f", "a", "r", "i", "/", "5", "3", "7", ".", "3", "6">>
UA_LinuxFirefox125 ==
    <<"M", "o", "z", "i", "l", "l", "a", "/", "5", ".", "0", " ", "(", "X", "1", "1", ";", " ",
      "L", "i", "n", "u", "x", " ", "x", "8", "6", "_", "6", "4", ";", " ", "r", "v", ":", "1",
      "2", "5", ".", "0", ")", " ", "G", "e", "c", "k", "o", "/", "2", "0", "1", "0", "0", "1",
      "0", "1", " ", "F", "i", "r", "e", "f", "o", "x", "/", "1", "2", "5", ".", "0">>
P_windows_chrome_moderno ==
    <<"w", "i", "n", "d", "o", "w", "s", "_", "c", "h", "r", "o", "m", "e", "_", "m", "o", "d",
      "e", "r", "n", "o">>
P_windows_firefox_moderno ==
    <<"w", "i", "n", "d", "o", "w", "s", "_", "f", "i", "r", "e", "f", "o", "x", "_", "m", "o",
      "d", "e", "r", "n", "o">>
P_macos_chrome_moderno ==
    <<"m", "a", "c", "o", "s", "_", "c", "h", "r", "o", "m", "e", "_", "m", "o", "d", "e", "r",
      "n", "o">>
P_macos_m3_chrome_moderno ==
    <<"m", "a", "c", "o", "s", "_", "m", "3", "_", "c", "h", "r", "o", "m", "e", "_", "m", "o",
      "d", "e", "r", "n", "o">>
P_macos_m4_chrome_moderno ==
    <<"m", "a", "c", "o", "s", "_", "m", "4", "_", "c", "h", "r", "o", "m", "e", "_", "m", "o",
      "d", "e", "r", "n", "o">>
P_macos_firefox_moderno ==
    <<"m", "a", "c", "o", "s", "_", "f", "i", "r", "e", "f", "o", "x", "_", "m", "o", "d", "e",
      "r", "n", "o">>
P_linux_chrome_moderno ==
    <<"l", "i", "n", "u", "x", "_", "c", "h", "r", "o", "m", "e", "_", "m", "o", "d", "e", "r",
      "n", "o">>
P_linux_firefox_moderno ==
    <<"l", "i", "n", "u", "x", "_", "f", "i", "r", "e", "f", "o", "x", "_", "m", "o", "d", "e",
      "r", "n", "o">>
S_UntitledProfile ==
    <<"U", "n", "t", "i", "t", "l", "e", "d", " ", "P", "r", "o", "f", "i", "l", "e">>
S_1_0_0 == <<"1", ".", "0", ".", "0">>

\* A card of PROFILE_TEMPLATES. name, description and icon are only displayed.
Template(id, os, userAgent, platform, oscpu, screenWidth, screenHeight, devicePixelRatio, webglVendor, webglRenderer, timezone, locale) ==
    [ id |-> Str(id), os |-> Str(os), userAgent |-> Str(userAgent), platform |-> Str(platform),
      oscpu |-> Str(oscpu), screenWidth |-> Num(screenWidth), screenHeight |-> Num(screenHeight),
      devicePixelRatio |-> Num(devicePixelRatio), webglVendor |-> Str(webglVendor),
      webglRenderer |-> Str(webglRenderer), timezone |-> Str(timezone), locale |-> Str(locale) ]

PROFILE_TEMPLATES ==
    << Template(T_macos_apple_silicon, S_macos, UA_MacFirefox133, S_MacIntel, S_OscpuMac,
                1920, 1080, 200, S_AppleInc, S_AppleM1, S_AmericaLosAngeles, S_enUS),
       Template(T_macos_standard, S_macos, UA_MacFirefox133, S_MacIntel, S_OscpuMac,
                1440, 900, 100, S_AppleInc, S_AppleM1, S_AmericaLosAngeles, S_enUS),
       Template(T_windows_11_nvidia, S_windows, UA_WindowsFirefox133, S_Win32, S_OscpuWindows,
                1920, 1080, 100, S_GoogleNvidia, Renderer_AngleNvidia, S_AmericaNewYork, S_enUS),
       Template(T_windows_11_intel, S_windows, UA_WindowsFirefox133, S_Win32, S_OscpuWindows,
                1920, 1080, 125, S_GoogleIntel, Renderer_AngleIntel, S_AmericaNewYork, S_enUS),
       Template(T_linux_desktop, S_linux, UA_LinuxFirefox133, S_LinuxX86_64, S_LinuxX86_64,
                1920, 1080, 100, S_Mesa, Renderer_MesaIntel, S_AmericaNewYork, S_enUS),
       Template(T_custom, S_windows, <<>>, <<>>, <<>>,
                1920, 1080, 100, <<>>, <<>>, S_AmericaNewYork, S_enUS) >>

\* An entry of PROFILE_PRESETS: the properties handleTemplateSelect reads.
Preset(id, os, userAgent) == [id |-> Str(id), os |-> Str(os), userAgent |-> Str(userAgent)]

PROFILE_PRESETS ==
    << Preset(P_windows_chrome_moderno, S_windows, UA_WindowsChrome120),
       Preset(P_windows_firefox_moderno, S_windows, UA_WindowsFirefox125),
       Preset(P_macos_chrome_moderno, S_macos, MAC_MODERN_BASE_UA),
       Preset(P_macos_m3_chrome_moderno, S_macos, MAC_MODERN_BASE_UA),
       Preset(P_macos_m4_chrome_moderno, S_macos, MAC_MODERN_BASE_UA),
       Preset(P_macos_firefox_moderno, S_macos, UA_MacFirefox125),
       Preset(P_linux_chrome_moderno, S_linux, UA_LinuxChrome120),
       Preset(P_linux_firefox_moderno, S_linux, UA_LinuxFirefox125) >>

\* list.find((x) => x.id === id): the positions of the matches; find takes the first.
Matches(list, id) == {i \in 1..Len(list) : list[i].id = id}

First(positions) == CHOOSE i \in positions : \A j \in positions : i <= j

\* useState<FormData>({...}): the form state of the wizard when it mounts
initialFormData ==
    [ templateId |-> Str(<<>>), name |-> Str(<<>>), notes |-> Str(<<>>), template |-> Str(<<>>),
      userAgent |-> Str(<<>>), os |-> Str(S_windows), platform |-> Str(<<>>),
      oscpu |-> Str(<<>>), screenWidth |-> Num(1920), screenHeight |-> Num(1080),
      devicePixelRatio |-> Num(100), webglVendor |-> Str(<<>>), webglRenderer |-> Str(<<>>),
      timezone |-> Str(S_AmericaNewYork), locale |-> Str(S_enUS), proxyType |-> Str(S_none),
      proxyAddress |-> Str(<<>>), webrtcMode |-> Str(S_default), storagePath |-> Str(<<>>) ]

\* The form state applyTemplate(templateId) sets.
applyTemplate(prev, templateId) ==
    IF Matches(PROFILE_TEMPLATES, templateId) = {} THEN prev
    ELSE LET template == PROFILE_TEMPLATES[First(Matches(PROFILE_TEMPLATES, templateId))] IN
         [ prev EXCEPT !.templateId = template.id, !.os = template.os,
                       !.userAgent = template.userAgent, !.platform = template.platform,
                       !.oscpu = template.oscpu, !.screenWidth = template.screenWidth,
                       !.screenHeight = template.screenHeight,
                       !.devicePixelRatio = template.devicePixelRatio,
                       !.webglVendor = template.webglVendor,
                       !.webglRenderer = template.webglRenderer,
                       !.timezone = template.timezone, !.locale = template.locale ]

\* The form state handleTemplateSelect(templateId) sets.
handleTemplateSelect(prev, templateId) ==
    IF Matches(PROFILE_PRESETS, templateId) = {}
    THEN [prev EXCEPT !.template = Str(<<>>)]
    ELSE LET preset == PROFILE_PRESETS[First(Matches(PROFILE_PRESETS, templateId))] IN
         [prev EXCEPT !.template = templateId, !.os = preset.os, !.userAgent = preset.userAgent]

\* steps.length
NumSteps == 6

\* The profile ceiling handleCreate tests against the length of the stored array.
LOCAL_PROFILE_LIMIT == 100

----------------------------------------------------------------------------
(* handleCreate: the profile it builds *)

\* sanitize(str) of handleCreate: slice(0, 5000), no trim
sanitize(str) == IF ~Truthy(str) THEN str ELSE Str(Slice(str.s, 5000))

\* Position of the first "-" of q, or 0
RECURSIVE DashAt(_, _)
DashAt(q, i) == IF i > Len(q) THEN 0 ELSE IF q[i] = "-" THEN i ELSE DashAt(q, i + 1)

\* locale.split("-")[0]
SplitDash0(q) == IF DashAt(q, 1) = 0 THEN q ELSE SubSeq(q, 1, DashAt(q, 1) - 1)

\* locale.split("-")[1]: undefined when there is no "-"
SplitDash1(q) ==
    IF DashAt(q, 1) = 0 THEN Undefined
    ELSE LET rest == SubSeq(q, DashAt(q, 1) + 1, Len(q)) IN Str(SplitDash0(rest))


\* Math.max(0, Math.min(value, 10000))
wizardScreenDim(value) == MathMax(Num(0), MathMin(value, Num(10000)))

\* const profile = {...}: built from the form state, the clock and generateId()
wizardProfile(data, now, uuid) ==
    [ id |-> Str(uuid),
      name |-> JsOr(sanitize(data.name), Str(S_UntitledProfile)),
      notes |-> sanitize(data.notes),
      version |-> Str(S_1_0_0),
      created_at |-> toISOString(now),
      updated_at |-> toISOString(now),
      target_os |-> data.os,
      browser_family |-> Str(S_firefox),
      navigator |->
        [ user_agent |-> sanitize(data.userAgent),
          platform |-> sanitize(data.platform),
          oscpu |-> sanitize(data.oscpu),
          hardware_concurrency |-> Num(8),
          max_touch_points |-> Num(0),
          languages |-> Arr(<<data.locale, Str(SplitDash0(data.locale.s))>>) ],
      screen |->
        [ width |-> wizardScreenDim(data.screenWidth),
          height |-> wizardScreenDim(data.screenHeight),
          avail_width |-> wizardScreenDim(data.screenWidth),
          avail_height |-> wizardScreenDim(Minus(data.screenHeight, Num(40))),
          device_pixel_ratio |-> MathMax(Num(50), MathMin(data.devicePixelRatio, Num(400))),
          color_depth |-> Num(24) ],
      locale |->
        [ language |-> Str(SplitDash0(data.locale.s)),
          region |-> JsOr(SplitDash1(data.locale.s), Str(S_US)),
          timezone |-> sanitize(data.timezone) ],
      webgl |->
        [ enabled |-> Bool(TRUE),
          vendor |-> sanitize(data.webglVendor),
          renderer |-> sanitize(data.webglRenderer) ],
      proxy |-> [ type |-> data.proxyType, server |-> sanitize(data.proxyAddress) ],
      webrtc |-> [ mode |-> data.webrtcMode ],
      storage |->
        [ user_data_dir |-> IF Truthy(data.storagePath) THEN sanitize(data.storagePath)
                            ELSE Null ] ]

\* The profiles page before fetchProfiles has answered.
NotLoaded == [isLoading |-> TRUE, ids |-> {}]

\* The value of submitted while handleCreate has not run.
NotSubmitted == [done |-> FALSE, withError |-> FALSE]

\* The wizard as it mounts, and the browser's storage before it.
WizardMounts ==
    /\ page = "new"
    /\ currentStep = 0
    /\ formData = initialFormData
    /\ consistencyIssues = validateConsistency(initialFormData)
    /\ submitted = NotSubmitted
    /\ localStorage = <<>>
    /\ profiles = NotLoaded

----------------------------------------------------------------------------
(* Drafts handed to sanitizeProfile *)

Repeat(c, k) == [i \in 1..k |-> c]

\* A draft as the wizard builds one for a macOS profile.
TypicalDraft ==
    [ EmptyDraft EXCEPT
        !.id = Str(<<"p", "1">>),
        !.name = Str(<<"M", "a", "c">>),
        !.created_at = Str(<<"T", "9">>),
        !.target_os = Str(S_macos),
        !.navigator.hardware_concurrency = Num(8),
        !.navigator.languages = Arr(<<Str(S_enUS), Str(S_en)>>),
        !.screen.width = Num(1440),
        !.screen.height = Num(900),
        !.screen.avail_width = Num(1440),
        !.screen.avail_height = Num(875),
        !.screen.device_pixel_ratio = Num(200),
        !.screen.color_depth = Num(30),
        !.locale.language = Str(S_en),
        !.webgl.enabled = Bool(TRUE),
        !.proxy.type = Str(S_socks5),
        !.proxy.server = Str(<<"h", ":", "1">>),
        !.webrtc.mode = Str(S_proxy_only),
        !.storage.persistent_cookies = Bool(FALSE),
        !.startup_url = Str(<<"a", ".", "b">>),
        !.custom_config = Obj(1) ]

WellFormedIds == {<<"p", "1">>, <<"p", "2">>, <<".">>}
TraversalIds == {<<".", ".">>, <<"a", "/", "b">>, <<"a", "\\", "b">>, <<".", ".", "/", "x">>}

IdSamples ==
    {Undefined, Str(<<>>)} \cup {Str(q) : q \in WellFormedIds \cup TraversalIds}

\* Values of a string property: absent, empty, blank, padded, plain, too long for
\* the shortest limits, and of a type other than string.
StringSamples ==
    { Undefined, Null, Str(<<>>), Str(<<" ">>), Str(<<" ", "\t">>), Str(<<"a">>),
      Str(<<" ", "a", " ">>), Str(<<"a", " ", "b">>),
      Str(Repeat("a", 9) \o <<" ", "b", "c">>), Str(Repeat("a", 19) \o <<" ", "b">>),
      Num(5), Num(0), Bool(TRUE), Bool(FALSE), Obj(1) }

NameSamples == StringSamples \cup {Str(Repeat("a", 199) \o <<" ", "b">>)}

\* Values of a numeric property other than numbers.
NotNumberSamples == {Undefined, Null, NaN, Str(<<"a", "b", "c">>), Str(<<"1", "6">>)}

ConcurrencySamples == {Num(k) : k \in (-2..130) \cup {9999}} \cup NotNumberSamples
TouchSamples == {Num(k) : k \in (-2..22) \cup {9999}} \cup NotNumberSamples
DimSamples ==
    {Num(k) : k \in {-1, 0, 40, 50, 99, 100, 101, 140, 1080, 1920, 9999, 10000, 10001,
                     10040, 10041}} \cup {Undefined, Str(<<"a", "b", "c">>)}
DprSamples == {Num(k) : k \in {-100, 0, 1, 49, 50, 51, 100, 125, 200, 399, 400, 401, 1000}}
                \cup NotNumberSamples
DepthSamples == {Num(k) : k \in {-1, 0, 8, 12, 16, 24, 30, 32, 48}}
                  \cup {Undefined, Str(<<"2", "4">>)}

EnumSamples(literals) ==
    {Str(q) : q \in literals}
      \cup { Undefined, Null, Str(<<>>), Str(<<"b", "s", "d">>), Str(<<"W", "i", "n", "d", "o", "w", "s">>),
             Str(<<"m", "a", "c", "o", "s", " ">>), Str(<<"H", "T", "T", "P">>),
             Str(<<"D", "e", "f", "a", "u", "l", "t">>), Num(5) }

LanguagesSamples ==
    { NoArray, [t |-> "string", items |-> <<>>], Arr(<<>>), Arr(<<Str(S_enUS), Str(S_en)>>),
      Arr(<<Str(<<" ", "p", "t", " ">>), Str(<<" ">>), Str(<<>>)>>),
      Arr(<<Num(5)>>), Arr(<<Undefined, Num(0)>>), Arr(Repeat(Str(S_en), 11)) }

BoolSamples == {Undefined, Bool(TRUE), Bool(FALSE), Num(0), Str(<<"f">>)}

Bases == {EmptyDraft, TypicalDraft}

\* Drafts that name the platform of macOS under a target_os that is absent, not
\* one of the three systems, or macos.
OtherSystemDrafts ==
    {[EmptyDraft EXCEPT !.target_os = v, !.navigator.platform = Str(S_MacIntel)] :
        v \in {Undefined, Str(<<"b", "s", "d">>), Str(S_macos)}}

Drafts ==
    {[b EXCEPT !.id = v] : b \in Bases, v \in IdSamples}
      \cup OtherSystemDrafts
      \cup {[b EXCEPT !.name = v] : b \in Bases, v \in NameSamples}
      \cup {[EmptyDraft EXCEPT !.notes = v] : v \in StringSamples}
      \cup {[b EXCEPT !.created_at = v] : b \in Bases, v \in {Undefined, Str(<<"T", "9">>), Str(<<>>)}}
      \cup {[EmptyDraft EXCEPT !.target_os = v] : v \in EnumSamples(validOS)}
      \cup {[EmptyDraft EXCEPT !.navigator.user_agent = v] : v \in StringSamples}
      \cup {[EmptyDraft EXCEPT !.navigator.platform = v] : v \in StringSamples}
      \cup {[EmptyDraft EXCEPT !.navigator.oscpu = v] : v \in StringSamples}
      \cup {[EmptyDraft EXCEPT !.navigator.hardware_concurrency = v] : v \in ConcurrencySamples}
      \cup {[EmptyDraft EXCEPT !.navigator.max_touch_points = v] : v \in TouchSamples}
      \cup {[EmptyDraft EXCEPT !.navigator.languages = v] : v \in LanguagesSamples}
      \cup {[EmptyDraft EXCEPT !.screen.width = v, !.screen.avail_width = w] :
                v \in DimSamples, w \in DimSamples}
      \cup {[EmptyDraft EXCEPT !.screen.height = v, !.screen.avail_height = w] :
                v \in DimSamples, w \in DimSamples}
      \cup {[EmptyDraft EXCEPT !.screen.device_pixel_ratio = v] : v \in DprSamples}
      \cup {[EmptyDraft EXCEPT !.screen.color_depth = v] : v \in DepthSamples}
      \cup {[EmptyDraft EXCEPT !.locale.language = v] : v \in StringSamples}
      \cup {[EmptyDraft EXCEPT !.locale.region = v] : v \in StringSamples}
      \cup {[EmptyDraft EXCEPT !.locale.timezone = v] : v \in StringSamples}
      \cup {[EmptyDraft EXCEPT !.webgl.enabled = v] : v \in BoolSamples}
      \cup {[EmptyDraft EXCEPT !.webgl.vendor = v] : v \in StringSamples}
      \cup {[EmptyDraft EXCEPT !.webgl.renderer = v] : v \in StringSamples}
      \cup {[EmptyDraft EXCEPT !.proxy.type = v] : v \in EnumSamples(validProxyTypes)}
      \cup {[EmptyDraft EXCEPT !.proxy.server = v] : v \in StringSamples}
      \cup {[EmptyDraft EXCEPT !.proxy.username = v] : v \in StringSamples}
      \cup {[EmptyDraft EXCEPT !.proxy.password = v] : v \in StringSamples}
      \cup {[EmptyDraft EXCEPT !.webrtc.mode = v] : v \in EnumSamples(validWebRTCModes)}
      \cup {[EmptyDraft EXCEPT !.webrtc.spoof_ipv4 = v] : v \in StringSamples}
      \cup {[EmptyDraft EXCEPT !.webrtc.spoof_ipv6 = v] : v \in StringSamples}
      \cup {[EmptyDraft EXCEPT !.storage.user_data_dir = v] : v \in StringSamples}
      \cup {[EmptyDraft EXCEPT !.storage.persistent_cookies = v] : v \in BoolSamples}
      \cup {[b EXCEPT !.startup_url = v] : b \in Bases, v \in StringSamples}
      \cup {[EmptyDraft EXCEPT !.startup_script = v] : v \in StringSamples}
      \cup {[EmptyDraft EXCEPT !.custom_config = v] : v \in {Undefined, Null, Obj(1), Num(0)}}

\* Drafts of a second, independent call that leaves the id to generateUUID.
SecondDrafts == {EmptyDraft, [EmptyDraft EXCEPT !.id = Str(<<>>)]}

NotCalled == [kind |-> "none", rec |-> EmptyDraft]
NoCall == [op |-> "none", draft |-> EmptyDraft, existed |-> FALSE, countBefore |-> 0,
           outcome |-> NotCalled]

\* The two saveProfile calls that run concurrently.
Savers == {"first", "second"}

\* A saveProfile call that has not started.
IdleSaver == [pc |-> "idle", draft |-> EmptyDraft, outcome |-> NotCalled]

\* The deleteProfile call and the run request before they start.
IdleDeleter == [pc |-> "idle", deleted |-> FALSE]
IdleRunner == [pc |-> "idle", present |-> FALSE]

\* The profiles the profiles page lists.
RunIds == {<<"p", "1">>, <<"p", "2">>, <<"p", "3">>}

NoRun == [id |-> <<>>, sent |-> FALSE]

\* The profiles page with no Run click made.
NoRunClicked ==
    /\ runningProfiles = {}
    /\ launchRequests = [id \in RunIds |-> 0]
    /\ removalTimers = [id \in RunIds |-> 0]
    /\ lastRun = NoRun

\* No request is being served.
NoRequests ==
    /\ disk = <<>>
    /\ savers = [s \in Savers |-> IdleSaver]
    /\ deleter = IdleDeleter
    /\ runner = IdleRunner
    /\ NoRunClicked

----------------------------------------------------------------------------
(* Calls of sanitizeProfile *)

\* Time passes between two calls; no call is then the one that returned last.
Tick ==
    /\ clock < MaxClock
    /\ clock' = clock + 1
    /\ last' = NoCall
    /\ UNCHANGED <<store, otherFiles, draft, sanitized, draft2, sanitized2, pc, wizardVars, requestVars>>

\* sanitizeProfile(draft)
Sanitize ==
    /\ pc = "start"
    /\ \E uuid \in UUIDs : sanitized' = sanitizeProfile(draft, clock, uuid)
    /\ pc' = "one"
    /\ UNCHANGED <<store, otherFiles, clock, last, draft, draft2, sanitized2, wizardVars, requestVars>>

\* sanitizeProfile(sanitizeProfile(draft))
Resanitize ==
    /\ pc = "one"
    /\ sanitized.kind = "ok"
    /\ draft2' = sanitized.rec
    /\ \E uuid \in UUIDs : sanitized2' = sanitizeProfile(sanitized.rec, clock, uuid)
    /\ pc' = "resanitized"
    /\ UNCHANGED <<store, otherFiles, clock, last, draft, sanitized, wizardVars, requestVars>>

\* A later sanitizeProfile call on a draft without an id.
SanitizeSecond ==
    /\ pc = "one"
    /\ \E d \in SecondDrafts, uuid \in UUIDs :
          /\ draft2' = d
          /\ sanitized2' = sanitizeProfile(d, clock, uuid)
    /\ pc' = "second"
    /\ UNCHANGED <<store, otherFiles, clock, last, draft, sanitized, wizardVars, requestVars>>

InitSanitize ==
    /\ store = <<>>
    /\ otherFiles = 0
    /\ clock = 0
    /\ last = NoCall
    /\ draft \in Drafts
    /\ sanitized = NotCalled
    /\ draft2 = EmptyDraft
    /\ sanitized2 = NotCalled
    /\ pc = "start"
    /\ WizardMounts
    /\ localOthers = 0
    /\ NoRequests

NextSanitize == Tick \/ Sanitize \/ Resanitize \/ SanitizeSecond

SpecSanitize == InitSanitize /\ [][NextSanitize]_vars


----------------------------------------------------------------------------
(* JSON.stringify and JSON.parse of a profile *)

\* A property that JSON.stringify left out of the text.
Absent == [t |-> "absent", n |-> 0, s |-> <<>>]

\* A property value: undefined is left out, NaN is written as null.
StringifyValue(v) ==
    CASE v.t = "undefined" -> Absent
      [] v.t = "NaN" -> Null
      [] OTHER -> v

\* An array element: undefined and NaN are both written as null.
StringifyElement(v) == IF v.t \in {"undefined", "NaN"} THEN Null ELSE v

StringifyArray(a) ==
    IF a.t = "array"
    THEN Arr([i \in 1..Len(a.items) |-> StringifyElement(a.items[i])])
    ELSE [t |-> "absent", items |-> <<>>]

NestedObjects == {"screen", "locale", "webgl", "proxy", "webrtc", "storage"}

\* JSON.stringify(profile, null, 2): the content written to <id>.json
JSONstringify(profile) ==
    [ f \in DOMAIN profile |->
        CASE f = "navigator" ->
               [ g \in DOMAIN profile.navigator |->
                   IF g = "languages" THEN StringifyArray(profile.navigator.languages)
                   ELSE StringifyValue(profile.navigator[g]) ]
          [] f \in NestedObjects -> [ g \in DOMAIN profile[f] |-> StringifyValue(profile[f][g]) ]
          [] OTHER -> StringifyValue(profile[f]) ]

ParseValue(v) == IF v.t = "absent" THEN Undefined ELSE v

ParseArray(a) == IF a.t = "absent" THEN NoArray ELSE a

\* JSON.parse(content) as ProfileConfig: reading a property the text lacks gives undefined.
JSONparse(content) ==
    [ f \in DOMAIN content |->
        CASE f = "navigator" ->
               [ g \in DOMAIN content.navigator |->
                   IF g = "languages" THEN ParseArray(content.navigator.languages)
                   ELSE ParseValue(content.navigator[g]) ]
          [] f \in NestedObjects -> [ g \in DOMAIN content[f] |-> ParseValue(content[f][g]) ]
          [] OTHER -> ParseValue(content[f]) ]

----------------------------------------------------------------------------
(* Profile storage service *)

DotDot == <<".", ".">>
Slash == <<"/">>
Backslash == <<"\\">>

\* profileId.includes(sub): a substring test on a string, a membership test on an
\* array.
idIncludes(profileId, sub) ==
    IF profileId.t = "stringArray" THEN profileId.s = sub ELSE Includes(profileId.s, sub)

\* Variant of getProfilePath without the ".." test.
getProfilePath_NoDotDot(profileId) ==
    IF ~Truthy(profileId) THEN "InvalidIdentifier"
    ELSE IF profileId.t \notin {"string", "stringArray"} THEN "TypeError"
    ELSE IF idIncludes(profileId, Slash) \/ idIncludes(profileId, Backslash)
         THEN "InvalidIdentifier"
    ELSE "ok"

\* getProfilePath: "ok" when it returns the path of <profileId>.json, otherwise the
\* error it throws. A truthy profileId that is neither a string nor an array has no
\* includes(). The path is built from `${profileId}`, which for the array that
\* holds one string is that string.
getProfilePath(profileId) ==
    IF ~Truthy(profileId) THEN "InvalidIdentifier"
    ELSE IF profileId.t \notin {"string", "stringArray"} THEN "TypeError"
    ELSE IF idIncludes(profileId, DotDot) \/ idIncludes(profileId, Slash)
              \/ idIncludes(profileId, Backslash)
         THEN "InvalidIdentifier"
    ELSE "ok"

\* Whether the file <key>.json, joined to the profiles directory, lies in it.
inProfilesDir(key) == ~Includes(key, Slash) /\ ~Includes(key, Backslash)

\* The profile files readdir(getProfilesDir()) returns, among those written.
profileFiles == {k \in DOMAIN store : inProfilesDir(k)}

\* (await listProfiles()).length: every profile file of the directory parses.
existingLength == Cardinality(profileFiles) + otherFiles

\* Variant of profileLimitReached that applies the ceiling to updates too.
profileLimitReached_NoExemption(length, input) == length >= MAX_PROFILES

\* existing.length >= VALIDATION.MAX_PROFILES && !input.id
profileLimitReached(length, input) == length >= MAX_PROFILES /\ ~Truthy(input.id)

\* What saveProfile(input) returns or throws, given the length of the list that
\* listProfiles() returned to it.
saveProfileWith(length, input, now, uuid) ==
    IF profileLimitReached(length, input) THEN Thrown("RecordLimitExceeded")
    ELSE LET profile == sanitizeProfile(input, now, uuid) IN
         IF profile.kind # "ok" THEN profile
         ELSE IF getProfilePath(profile.rec.id) # "ok"
              THEN Thrown(getProfilePath(profile.rec.id))
         ELSE profile

\* What saveProfile(input) returns or throws when it runs alone.
saveProfile(input, now, uuid) == saveProfileWith(existingLength, input, now, uuid)

\* fs.writeFile(filePath, content)
writeFile(files, id, content) ==
    [k \in DOMAIN files \cup {id} |-> IF k = id THEN content ELSE files[k]]

\* Variant of filesAfterSave that writes the file before the ceiling is tested.
filesAfterSave_WriteBeforeLimit(files, input, now, uuid) ==
    LET profile == sanitizeProfile(input, now, uuid) IN
    IF profile.kind = "ok" /\ getProfilePath(profile.rec.id) = "ok"
    THEN writeFile(files, profile.rec.id.s, JSONstringify(profile.rec))
    ELSE files

\* The files after saveProfile(input): the record is written when nothing was
\* thrown before fs.writeFile.
filesAfterSave(files, input, now, uuid) ==
    LET outcome == saveProfile(input, now, uuid) IN
    IF outcome.kind = "ok"
    THEN writeFile(files, outcome.rec.id.s, JSONstringify(outcome.rec))
    ELSE files

\* Variant of unlink that empties the directory.
unlink_All(files, id) == [k \in {} |-> files[k]]

\* fs.unlink(filePath)
unlink(files, id) == [k \in DOMAIN files \ {id} |-> files[k]]

\* Ids of the drafts posted to the store: absent, empty, well-formed or malformed.
StoreIds ==
    {Undefined, Str(<<>>), Str(<<"p", "1">>), Str(<<".", ".">>), Str(<<"a", "/", "b">>),
     Str(<<"a", "\\", "b">>)}

\* A draft no form of the wizard produces: it is for macOS, names the platform
\* of Windows, and has a string where the screen width is expected.
MismatchedDraft ==
    [EmptyDraft EXCEPT !.id = Str(<<"p", "1">>), !.target_os = Str(S_macos),
                       !.navigator.platform = Str(S_Win32),
                       !.screen.width = Str(<<"a", "b", "c">>)]

\* Drafts posted to the store: each id with nothing else set, the well-formed id
\* with a created_at of the client's, drafts with a name of the wrong type, and
\* the mismatched draft.
StoreDrafts ==
    {[EmptyDraft EXCEPT !.id = i] : i \in StoreIds}
      \cup {[EmptyDraft EXCEPT !.id = Str(<<"p", "1">>), !.created_at = Str(<<"T", "9">>)]}
      \cup {[EmptyDraft EXCEPT !.id = i, !.name = Num(5)] :
               i \in {Undefined, Str(<<"p", "1">>), Str(<<".", ".">>)}}
      \cup {MismatchedDraft}

\* What generateUUID can return during saveProfile(input): it is called only when
\* input.id is falsy, so otherwise no draw is made and the value is never read.
generateUUIDDraws(input) ==
    IF Truthy(input.id) THEN {CHOOSE u \in UUIDs : TRUE} ELSE UUIDs

\* Ids named by load and delete requests.
RequestIds ==
    {Str(<<>>), Str(<<"p", "1">>), Str(<<"a", "/", "b">>)} \cup {Str(u) : u \in UUIDs}

\* Whether the request's id names a stored file.
Stored(id) == id.t \in {"string", "stringArray"} /\ id.s \in DOMAIN store

Call(op, d, outcome) ==
    [op |-> op, draft |-> d, existed |-> Stored(d.id), countBefore |-> existingLength,
     outcome |-> outcome]

\* Drafts whose id is an array of one string (the JSON body is not validated):
\* ["p1"], ["../x"] and [".."].
ArrayIdDrafts ==
    {[EmptyDraft EXCEPT !.id = ArrayOf(q)] : q \in {<<"p", "1">>, <<".", ".", "/", "x">>, DotDot}}

\* await saveProfile(d), run to completion, for a draft of the given set
SaveOf(drafts) ==
    /\ \E d \in drafts : \E uuid \in generateUUIDDraws(d) :
          /\ store' = filesAfterSave(store, d, clock, uuid)
          /\ last' = Call("save", d, saveProfile(d, clock, uuid))
    /\ UNCHANGED <<otherFiles, clock, draft, sanitized, draft2, sanitized2, pc, wizardVars, requestVars>>

Save == SaveOf(StoreDrafts)

SaveArrayId == SaveOf(ArrayIdDrafts)

\* await deleteProfile(id): true when the file was unlinked, false on any error
Delete ==
    /\ \E id \in RequestIds :
          LET deleted == getProfilePath(id) = "ok" /\ Stored(id) IN
          /\ store' = IF deleted THEN unlink(store, id.s) ELSE store
          /\ last' = Call("delete", [EmptyDraft EXCEPT !.id = id],
                          [kind |-> IF deleted THEN "true" ELSE "false", rec |-> EmptyDraft])
    /\ UNCHANGED <<otherFiles, clock, draft, sanitized, draft2, sanitized2, pc, wizardVars, requestVars>>

\* What loadProfile(profileId) returns: the parsed record, or null on any error.
loadProfile(profileId) ==
    IF getProfilePath(profileId) = "ok" /\ Stored(profileId)
    THEN Returned(JSONparse(store[profileId.s]))
    ELSE [kind |-> "null", rec |-> EmptyDraft]

\* await loadProfile(id)
Load ==
    /\ \E id \in RequestIds : last' = Call("load", [EmptyDraft EXCEPT !.id = id], loadProfile(id))
    /\ UNCHANGED <<store, otherFiles, clock, draft, sanitized, draft2, sanitized2, pc, wizardVars, requestVars>>

\* The profiles directory as earlier runs left it: empty, or close to the limit.
Init ==
    /\ store = <<>>
    /\ otherFiles \in {0, MAX_PROFILES - Headroom}
    /\ clock = 0
    /\ last = NoCall
    /\ draft = EmptyDraft
    /\ sanitized = NotCalled
    /\ draft2 = EmptyDraft
    /\ sanitized2 = NotCalled
    /\ pc = "start"
    /\ WizardMounts
    /\ localOthers = 0
    /\ NoRequests

Next == Save \/ Delete \/ Load \/ Tick

Spec == Init /\ [][Next]_vars

\* The store under saves of drafts with an array for an id.
NextArrayId == SaveArrayId \/ Delete \/ Load \/ Tick

SpecArrayId == Init /\ [][NextArrayId]_vars

----------------------------------------------------------------------------
(* Calls of validateConsistency *)

S_bsd == <<"b", "s", "d">>
S_AppleM2Upper == <<"A", "P", "P", "L", "E", " ", "M", "2">>
S_Triangle == <<"T", "r", "i", "a", "n", "g", "l", "e">>
S_ProxyServer == <<"1", ".", "2", ".", "3", ".", "4", ":", "1", "0", "8", "0">>

\* Form states handed to validateConsistency: the operating systems of a record and
\* one that is none of them; platform, user agent and renderer blank, matching one
\* system or another, in another case, or merely containing a pattern; the pixel
\* ratios of the templates; every proxy type and WebRTC mode.
OsSamples == {Str(S_macos), Str(S_windows), Str(S_linux), Str(S_bsd)}
PlatformSamples == {Str(<<>>), Str(S_MacIntel), Str(S_MacPPC), Str(S_Win32), Str(S_LinuxX86_64)}
UserAgentSamples ==
    {Str(<<>>), Str(UA_MacFirefox133), Str(UA_WindowsFirefox133), Str(UA_LinuxFirefox133),
     Str(S_X11)}
RendererSamples ==
    {Str(<<>>), Str(S_AppleM1), Str(S_AppleM2Upper), Str(Renderer_AngleNvidia),
     Str(Renderer_MesaIntel), Str(S_Triangle)}
PixelRatioSamples == {Num(100), Num(125), Num(200)}
ProxyTypeSamples == {Str(S_none), Str(S_http), Str(S_socks5)}
ProxyAddressSamples == {Str(<<>>), Str(S_ProxyServer)}
WebrtcModeSamples == {Str(S_default), Str(S_disabled), Str(S_proxy_only)}

FormSamples ==
    { [ initialFormData EXCEPT
          !.os = os, !.platform = platform, !.userAgent = userAgent,
          !.webglRenderer = renderer, !.devicePixelRatio = ratio, !.proxyType = proxyType,
          !.proxyAddress = address, !.webrtcMode = mode ] :
        os \in OsSamples, platform \in PlatformSamples, userAgent \in UserAgentSamples,
        renderer \in RendererSamples, ratio \in PixelRatioSamples,
        proxyType \in ProxyTypeSamples, address \in ProxyAddressSamples,
        mode \in WebrtcModeSamples }

\* validateConsistency(formData)
Validate ==
    /\ pc = "start"
    /\ consistencyIssues' = validateConsistency(formData)
    /\ pc' = "validated"
    /\ UNCHANGED <<storageVars, sanitizerVars, requestVars, page, currentStep, formData, submitted,
                   localStorage, localOthers, profiles>>

\* The same form with only its WebRTC mode set to another value, validated again.
ChangeWebrtcMode ==
    /\ pc = "validated"
    /\ \E mode \in {Str(S_disabled), Str(S_proxy_only)} :
          /\ formData' = [formData EXCEPT !.webrtcMode = mode]
          /\ consistencyIssues' = validateConsistency(formData')
    /\ pc' = "changed"
    /\ UNCHANGED <<storageVars, sanitizerVars, requestVars, page, currentStep, submitted, localStorage,
                   localOthers, profiles>>

InitConsistency ==
    /\ store = <<>>
    /\ otherFiles = 0
    /\ clock = 0
    /\ last = NoCall
    /\ draft = EmptyDraft
    /\ sanitized = NotCalled
    /\ draft2 = EmptyDraft
    /\ sanitized2 = NotCalled
    /\ pc = "start"
    /\ page = "new"
    /\ currentStep = 0
    /\ formData \in FormSamples
    /\ consistencyIssues = <<>>
    /\ submitted = NotSubmitted
    /\ localStorage = <<>>
    /\ localOthers = 0
    /\ profiles = NotLoaded
    /\ NoRequests

NextConsistency == Validate \/ ChangeWebrtcMode

SpecConsistency == InitConsistency /\ [][NextConsistency]_vars

----------------------------------------------------------------------------
(* New-profile wizard and profiles page *)

\* The card grid of step 0: one card for each template.
TemplateCards == {PROFILE_TEMPLATES[i].id : i \in 1..Len(PROFILE_TEMPLATES)}

\* The options of the preset dropdown of step 1: "" and one for each preset.
PresetOptions == {Str(<<>>)} \cup {PROFILE_PRESETS[i].id : i \in 1..Len(PROFILE_PRESETS)}

\* Field edits, by the step whose inputs make them: the three options of the
\* system select, the screen width input cleared (parseInt("") || 0) and the
\* screen height input given a negative number.
Edit(step, field, value) == [step |-> step, field |-> field, value |-> value]

Edits ==
    { Edit(2, "os", Str(S_macos)), Edit(2, "os", Str(S_windows)), Edit(2, "os", Str(S_linux)),
      Edit(2, "screenWidth", Num(0)), Edit(2, "screenHeight", Num(-5)) }

\* disabled={consistencyIssues.some((i) => i.level === "error")}
createDisabled_Never(issues) == FALSE

createDisabled(issues) == someError(issues)

wizardIdle == <<storageVars, sanitizerVars, pc, requestVars>>

\* A click on a template card. The effect on formData runs with the render that
\* follows, before any further event is handled.
ApplyTemplate ==
    /\ page = "new"
    /\ currentStep = 0
    /\ \E templateId \in TemplateCards :
          formData' = applyTemplate(formData, templateId)
    /\ consistencyIssues' = validateConsistency(formData')
    /\ UNCHANGED <<wizardIdle, page, currentStep, submitted, localStorage, localOthers,
                   profiles>>

\* A choice in the preset dropdown.
SelectPreset ==
    /\ page = "new"
    /\ currentStep = 1
    /\ \E templateId \in PresetOptions :
          formData' = handleTemplateSelect(formData, templateId)
    /\ consistencyIssues' = validateConsistency(formData')
    /\ UNCHANGED <<wizardIdle, page, currentStep, submitted, localStorage, localOthers,
                   profiles>>

\* updateFormData(field, value), from an input of the step shown
UpdateFormData ==
    /\ page = "new"
    /\ \E edit \in Edits :
          /\ edit.step = currentStep
          /\ formData' = [formData EXCEPT ![edit.field] = edit.value]
    /\ consistencyIssues' = validateConsistency(formData')
    /\ UNCHANGED <<wizardIdle, page, currentStep, submitted, localStorage, localOthers,
                   profiles>>

HandleNext ==
    /\ page = "new"
    /\ currentStep < NumSteps - 1
    /\ currentStep' = currentStep + 1
    /\ UNCHANGED <<wizardIdle, page, formData, consistencyIssues, submitted, localStorage,
                   localOthers, profiles>>

HandleBack ==
    /\ page = "new"
    /\ currentStep > 0
    /\ currentStep' = currentStep - 1
    /\ UNCHANGED <<wizardIdle, page, formData, consistencyIssues, submitted, localStorage,
                   localOthers, profiles>>

\* A click on "Criar perfil", rendered on the last step and enabled while no issue
\* is an error: handleCreate appends the profile to the browser's storage and
\* opens the profiles page, or alerts when the stored array is full.
HandleCreate ==
    /\ page = "new"
    /\ currentStep = NumSteps - 1
    /\ ~createDisabled(consistencyIssues)
    /\ submitted' = [done |-> TRUE, withError |-> someError(validateConsistency(formData))]
    /\ IF localOthers + Len(localStorage) >= LOCAL_PROFILE_LIMIT
       THEN UNCHANGED <<localStorage, page>>
       ELSE /\ \E uuid \in UUIDs :
                  localStorage' = Append(localStorage, wizardProfile(formData, clock, uuid))
            /\ page' = "profiles"
    /\ UNCHANGED <<wizardIdle, currentStep, formData, consistencyIssues, localOthers, profiles>>

\* listProfiles(), as GET /api/profiles returns it: the ids of the records parsed
\* from the profile files (the order of the list is left out).
listedIds == {JSONparse(store[k]).id : k \in profileFiles}

\* fetchProfiles of the profiles page
FetchProfiles ==
    /\ page = "profiles"
    /\ profiles' = [isLoading |-> FALSE, ids |-> listedIds]
    /\ UNCHANGED <<wizardIdle, page, currentStep, formData, consistencyIssues, submitted,
                   localStorage, localOthers>>

\* A profile an earlier request posted to the store.
EarlierDraft == [EmptyDraft EXCEPT !.id = Str(<<"p", "1">>)]

\* The wizard opens in a browser whose stored array is empty or full; the profiles
\* directory holds one profile.
InitWizard ==
    /\ store = writeFile(<<>>, EarlierDraft.id.s,
                         JSONstringify(sanitizeProfileRecord(EarlierDraft, 0, UUID(1))))
    /\ otherFiles = 0
    /\ clock = 0
    /\ last = NoCall
    /\ draft = EmptyDraft
    /\ sanitized = NotCalled
    /\ draft2 = EmptyDraft
    /\ sanitized2 = NotCalled
    /\ pc = "start"
    /\ WizardMounts
    /\ localOthers \in {0, LOCAL_PROFILE_LIMIT}
    /\ NoRequests

NextWizard ==
    \/ ApplyTemplate
    \/ SelectPreset
    \/ UpdateFormData
    \/ HandleNext
    \/ HandleBack
    \/ HandleCreate
    \/ FetchProfiles

SpecWizard == InitWizard /\ [][NextWizard]_vars

\* The wizard used with template cards, the preset dropdown and the step buttons
\* only: no field is edited by hand.
NextTemplates ==
    \/ ApplyTemplate
    \/ SelectPreset
    \/ HandleNext
    \/ HandleBack

SpecTemplates == InitWizard /\ [][NextTemplates]_vars

----------------------------------------------------------------------------
(* Requests served concurrently: two saveProfile calls, a deleteProfile call and
   a run request. Each step is one file-system operation together with the
   synchronous code that follows it; the operations of different requests
   interleave. A file of disk is the sequence of the writes it holds: the last
   write made at offset 0 first, then each earlier write whose text is longer and
   so shows behind it. *)

\* Characters of the string values among the given properties.
RECURSIVE CharsOf(_, _)
CharsOf(object, properties) ==
    IF properties = {} THEN 0
    ELSE LET g == CHOOSE g \in properties : TRUE IN
         (IF object[g].t = "string" THEN Len(object[g].s) ELSE 0)
            + CharsOf(object, properties \ {g})

\* Length of the text JSON.stringify wrote, up to a constant: the characters of
\* its string values (the records compared have the same properties and numbers).
TextLength(content) ==
    CharsOf(content, DOMAIN content \ (NestedObjects \cup {"navigator"}))
      + CharsOf(content.navigator, DOMAIN content.navigator \ {"languages"})
      + CharsOf(content.screen, DOMAIN content.screen)
      + CharsOf(content.locale, DOMAIN content.locale)
      + CharsOf(content.webgl, DOMAIN content.webgl)
      + CharsOf(content.proxy, DOMAIN content.proxy)
      + CharsOf(content.webrtc, DOMAIN content.webrtc)
      + CharsOf(content.storage, DOMAIN content.storage)

\* JSON.parse(content) succeeds on a file that holds one whole write and nothing
\* behind it; an empty file and a file with the rest of a longer text do not parse.
Parses(file) == Len(file) = 1

\* fs.writeFile, first part: open(filePath, "w") creates the file or truncates it.
openTruncate(files, key) ==
    [k \in DOMAIN files \cup {key} |-> IF k = key THEN <<>> ELSE files[k]]

\* fs.writeFile, second part: the text is written at offset 0 of the descriptor;
\* what the file holds beyond the length of the text stays.
writeAtStart(file, content) ==
    <<content>> \o SelectSeq(file, LAMBDA c : TextLength(c) > TextLength(content))

\* (await listProfiles()).length: the files of the directory that parse.
listedLength ==
    Cardinality({k \in DOMAIN disk : inProfilesDir(k) /\ Parses(disk[k])}) + otherFiles

\* Drafts of the concurrent saves: without an id, and two for the id p1 whose
\* records differ in length.
SaverDrafts ==
    {EmptyDraft, [EmptyDraft EXCEPT !.id = Str(<<"p", "1">>)],
     [EmptyDraft EXCEPT !.id = Str(<<"p", "1">>), !.target_os = Str(S_macos)]}

\* The id the delete and run requests name.
RequestedId == Str(<<"p", "1">>)

requestsIdle == <<store, clock, last, sanitizerVars, pc, wizardVars, runVars, otherFiles>>

\* saveProfile up to fs.writeFile: listProfiles() answers, then the ceiling test,
\* sanitizeProfile and getProfilePath run without interruption.
SaveList(s) ==
    /\ savers[s].pc = "idle"
    /\ \E d \in SaverDrafts : \E uuid \in generateUUIDDraws(d) :
          LET outcome == saveProfileWith(listedLength, d, clock, uuid) IN
          savers' = [savers EXCEPT ![s] = [pc |-> IF outcome.kind = "ok" THEN "open" ELSE "done",
                                           draft |-> d, outcome |-> outcome]]
    /\ UNCHANGED <<requestsIdle, disk, deleter, runner>>

\* fs.writeFile opens the file.
SaveOpen(s) ==
    /\ savers[s].pc = "open"
    /\ disk' = openTruncate(disk, savers[s].outcome.rec.id.s)
    /\ savers' = [savers EXCEPT ![s].pc = "write"]
    /\ UNCHANGED <<requestsIdle, deleter, runner>>

\* fs.writeFile writes the text and saveProfile returns. A descriptor whose file
\* was unlinked meanwhile writes to a file no directory names.
SaveWrite(s) ==
    /\ savers[s].pc \in {"write", "unlinked"}
    /\ disk' = IF savers[s].pc = "write"
               THEN [disk EXCEPT ![savers[s].outcome.rec.id.s] =
                                    writeAtStart(@, JSONstringify(savers[s].outcome.rec))]
               ELSE disk
    /\ savers' = [savers EXCEPT ![s].pc = "done"]
    /\ UNCHANGED <<requestsIdle, deleter, runner>>

\* deleteProfile(id): getProfilePath, then fs.unlink.
DeleteUnlink ==
    /\ deleter.pc = "idle"
    /\ LET deleted == getProfilePath(RequestedId) = "ok" /\ RequestedId.s \in DOMAIN disk IN
       /\ disk' = IF deleted THEN unlink(disk, RequestedId.s) ELSE disk
       /\ savers' = [s \in Savers |->
                       IF deleted /\ savers[s].pc = "write"
                            /\ savers[s].outcome.rec.id = RequestedId
                       THEN [savers[s] EXCEPT !.pc = "unlinked"]
                       ELSE savers[s]]
       /\ deleter' = [pc |-> "done", deleted |-> deleted]
    /\ UNCHANGED <<requestsIdle, runner>>

\* POST /api/profiles/[id]/run: loadProfile(id) answers.
RunLoad ==
    /\ runner.pc = "idle"
    /\ runner' = [runner EXCEPT !.pc = IF /\ getProfilePath(RequestedId) = "ok"
                                          /\ RequestedId.s \in DOMAIN disk
                                          /\ Parses(disk[RequestedId.s])
                                       THEN "loaded" ELSE "notFound"]
    /\ UNCHANGED <<requestsIdle, disk, savers, deleter>>

\* The run request goes on after the await: spawn(pythonCmd, [launcherScript,
\* "--profile", profilePath]). present records whether the file is there then.
RunSpawn ==
    /\ runner.pc = "loaded"
    /\ runner' = [pc |-> "spawned", present |-> RequestedId.s \in DOMAIN disk]
    /\ UNCHANGED <<requestsIdle, disk, savers, deleter>>

\* The directory is empty or holds p1.json, next to no other file or to one fewer
\* than the ceiling.
InitRequests ==
    /\ store = <<>>
    /\ otherFiles \in {0, MAX_PROFILES - 1}
    /\ clock = 0
    /\ last = NoCall
    /\ draft = EmptyDraft
    /\ sanitized = NotCalled
    /\ draft2 = EmptyDraft
    /\ sanitized2 = NotCalled
    /\ pc = "start"
    /\ WizardMounts
    /\ localOthers = 0
    /\ disk \in {<<>>, writeFile(<<>>, EarlierDraft.id.s,
                                 <<JSONstringify(sanitizeProfileRecord(EarlierDraft, 0, UUID(1)))>>)}
    /\ savers = [s \in Savers |-> IdleSaver]
    /\ deleter = IdleDeleter
    /\ runner = IdleRunner
    /\ NoRunClicked

NextRequests ==
    \/ \E s \in Savers : SaveList(s)
    \/ \E s \in Savers : SaveOpen(s)
    \/ \E s \in Savers : SaveWrite(s)
    \/ DeleteUnlink
    \/ RunLoad
    \/ RunSpawn

SpecRequests == InitRequests /\ [][NextRequests]_vars

----------------------------------------------------------------------------
(* Run buttons of the profiles page. React renders the state a click handler set
   before the next click is dispatched, so handleRun and the disabled attribute
   read the current runningProfiles. *)

\* Variant of runBlocked that lets every click through.
runBlocked_Never(running, id) == FALSE

\* runningProfiles.has(id): the test of handleRun and of the button's disabled
runBlocked(running, id) == id \in running

runPageIdle == <<storageVars, sanitizerVars, pc, wizardVars, serverVars>>

\* handleRun(id) up to the await of fetch: the profile is found, and unless the
\* id is running it is added to runningProfiles and the request is sent.
HandleRun ==
    /\ page = "profiles"
    /\ \E id \in RunIds :
          /\ Str(id) \in profiles.ids
          /\ launchRequests[id] < MaxLaunches
          /\ IF runBlocked(runningProfiles, id)
             THEN /\ lastRun' = [id |-> id, sent |-> FALSE]
                  /\ UNCHANGED <<runningProfiles, launchRequests>>
             ELSE /\ runningProfiles' = runningProfiles \cup {id}
                  /\ launchRequests' = [launchRequests EXCEPT ![id] = @ + 1]
                  /\ lastRun' = [id |-> id, sent |-> TRUE]
    /\ UNCHANGED <<runPageIdle, removalTimers>>

\* The response arrives (or fetch fails): after the alert, finally sets the timer.
RunResponds ==
    /\ \E id \in RunIds :
          /\ launchRequests[id] > 0
          /\ launchRequests' = [launchRequests EXCEPT ![id] = @ - 1]
          /\ removalTimers' = [removalTimers EXCEPT ![id] = @ + 1]
    /\ UNCHANGED <<runPageIdle, runningProfiles, lastRun>>

\* The setTimeout callback, 2000 ms later: the id leaves runningProfiles.
TimerFires ==
    /\ \E id \in RunIds :
          /\ removalTimers[id] > 0
          /\ removalTimers' = [removalTimers EXCEPT ![id] = @ - 1]
          /\ runningProfiles' = runningProfiles \ {id}
    /\ UNCHANGED <<runPageIdle, launchRequests, lastRun>>

\* The profiles page has loaded its three profiles.
InitRunPage ==
    /\ store = <<>>
    /\ otherFiles = 0
    /\ clock = 0
    /\ last = NoCall
    /\ draft = EmptyDraft
    /\ sanitized = NotCalled
    /\ draft2 = EmptyDraft
    /\ sanitized2 = NotCalled
    /\ pc = "start"
    /\ page = "profiles"
    /\ currentStep = 0
    /\ formData = initialFormData
    /\ consistencyIssues = <<>>
    /\ submitted = NotSubmitted
    /\ localStorage = <<>>
    /\ localOthers = 0
    /\ profiles = [isLoading |-> FALSE, ids |-> {Str(id) : id \in RunIds}]
    /\ NoRequests

NextRunPage == HandleRun \/ RunResponds \/ TimerFires

SpecRunPage == InitRunPage /\ [][NextRunPage]_vars



----------------------------------------------------------------------------
(* Vocabulary of the properties *)

IsA(v, types) == v.t \in types

\* A draft whose properties, where present, have the types Partial<ProfileConfig>
\* declares. The enum properties are left free: a value outside the enum is what
\* the sanitizer is there to replace.
TypedDraft(d) ==
    /\ \A f \in {"id", "name", "notes", "version", "created_at", "updated_at", "browser_family",
                 "startup_url", "startup_script"} : IsA(d[f], {"undefined", "string"})
    /\ IsA(d.custom_config, {"undefined", "object"})
    /\ \A f \in {"user_agent", "platform", "oscpu"} : IsA(d.navigator[f], {"undefined", "string"})
    /\ \A f \in {"hardware_concurrency", "max_touch_points"} :
          IsA(d.navigator[f], {"undefined", "number"})
    /\ \/ d.navigator.languages.t = "undefined"
       \/ /\ d.navigator.languages.t = "array"
          /\ \A i \in 1..Len(d.navigator.languages.items) :
                d.navigator.languages.items[i].t = "string"
    /\ \A f \in DOMAIN d.screen : IsA(d.screen[f], {"undefined", "number"})
    /\ \A f \in DOMAIN d.locale : IsA(d.locale[f], {"undefined", "string"})
    /\ IsA(d.webgl.enabled, {"undefined", "boolean"})
    /\ \A f \in {"vendor", "renderer"} : IsA(d.webgl[f], {"undefined", "string"})
    /\ \A f \in {"server", "username", "password"} :
          IsA(d.proxy[f], {"undefined", "null", "string"})
    /\ \A f \in {"spoof_ipv4", "spoof_ipv6"} : IsA(d.webrtc[f], {"undefined", "null", "string"})
    /\ IsA(d.storage.user_data_dir, {"undefined", "null", "string"})
    /\ IsA(d.storage.persistent_cookies, {"undefined", "boolean"})

InRange(v, lo, hi) == v.t = "number" /\ lo <= v.n /\ v.n <= hi

Clamp(k, lo, hi) == IF k < lo THEN lo ELSE IF k > hi THEN hi ELSE k

WithinBoundsAndEnums(r) ==
    /\ InRange(r.navigator.hardware_concurrency, 1, 128)
    /\ InRange(r.navigator.max_touch_points, 0, 20)
    /\ \A f \in {"width", "height", "avail_width", "avail_height"} :
          InRange(r.screen[f], 100, 10000)
    /\ InRange(r.screen.device_pixel_ratio, 50, 400)
    /\ r.screen.color_depth \in {Num(8), Num(16), Num(24), Num(30), Num(32)}
    /\ r.target_os \in {Str(S_macos), Str(S_windows), Str(S_linux)}
    /\ r.proxy.type \in {Str(S_none), Str(S_http), Str(S_socks5)}
    /\ r.webrtc.mode \in {Str(S_disabled), Str(S_proxy_only), Str(S_default)}

\* An id that contains "..", "/" or "\".
HasTraversal(id) ==
    /\ id.t = "string"
    /\ \/ Includes(id.s, <<".", ".">>)
       \/ Includes(id.s, <<"/">>)
       \/ Includes(id.s, <<"\\">>)

\* A non-empty string free of "..", "/" and "\".
WellFormedId(id) == id.t = "string" /\ id.s # <<>> /\ ~HasTraversal(id)

GeneratedId(id) == id \in {Str(u) : u \in UUIDs}

SameExceptUpdatedAt(r1, r2) ==
    [r1 EXCEPT !.updated_at = Undefined] = [r2 EXCEPT !.updated_at = Undefined]

----------------------------------------------------------------------------
(* Properties of sanitizeProfile, under SpecSanitize *)

\* C1: for every draft whose bounded numeric properties are absent or numbers
\* (zero, negative, above the maximum) and whose enum properties hold any value,
\* sanitizeProfile returns a record with every bounded number inside its range and
\* every enum property inside its set.
C1_BoundsAndEnumsClosed ==
    /\ pc # "start" /\ TypedDraft(draft)
          => sanitized.kind = "ok" /\ WithinBoundsAndEnums(sanitized.rec)
    /\ pc \in {"resanitized", "second"} /\ TypedDraft(draft2)
          => sanitized2.kind = "ok" /\ WithinBoundsAndEnums(sanitized2.rec)

C1_Witness ==
    /\ pc = "one"
    /\ draft.screen.width = Num(10001)
    /\ draft.screen.avail_width = Num(-1)
    /\ sanitized.kind = "ok"
    /\ sanitized.rec.screen.width = Num(10000)
    /\ sanitized.rec.screen.avail_width = Num(100)

\* C2: for every integer n given as navigator.hardware_concurrency the sanitized
\* value is n clamped into [1,128]; 9999 gives 128 and 0 gives 1.
C2_ConcurrencyClamped ==
    pc # "start" /\ sanitized.kind = "ok" /\ draft.navigator.hardware_concurrency.t = "number"
       => sanitized.rec.navigator.hardware_concurrency
             = Num(Clamp(draft.navigator.hardware_concurrency.n, 1, 128))

\* C7: for every draft with a well-formed id, sanitizing the sanitized record again
\* changes no field but updated_at, also when a string is blank or trims to empty.
C7_ResanitizeIdempotent ==
    pc = "resanitized" /\ TypedDraft(draft) /\ WellFormedId(draft.id)
       => sanitized2.kind = "ok" /\ SameExceptUpdatedAt(sanitized2.rec, sanitized.rec)

\* C8: sanitizeProfile returns a record for every draft whose id is absent or
\* well-formed, whatever the type or content of the other properties.
C8_FailsOnlyOnInvalidId ==
    pc # "start" /\ (draft.id = Undefined \/ WellFormedId(draft.id)) => sanitized.kind = "ok"

\* C9 as stated: a well-formed supplied id is kept; a draft without an id gets a
\* non-empty, well-formed id that differs from the one any other call generated.
C9_GeneratedIdsDiffer ==
    /\ pc # "start" /\ WellFormedId(draft.id) /\ sanitized.kind = "ok"
          => sanitized.rec.id = draft.id
    /\ pc = "second" /\ draft.id = Undefined /\ draft2.id = Undefined
         /\ sanitized.kind = "ok" /\ sanitized2.kind = "ok"
          => /\ WellFormedId(sanitized.rec.id)
             /\ WellFormedId(sanitized2.rec.id)
             /\ sanitized.rec.id # sanitized2.rec.id

\* C9, amended: a well-formed supplied id is kept; a draft without an id gets one of
\* the identifiers generateUUID draws, which is non-empty and well-formed. Nothing
\* keeps two calls from drawing the same one.
C9_IdKeptOrGenerated ==
    /\ pc # "start" /\ WellFormedId(draft.id) /\ sanitized.kind = "ok"
          => sanitized.rec.id = draft.id
    /\ pc # "start" /\ draft.id = Undefined /\ sanitized.kind = "ok"
          => GeneratedId(sanitized.rec.id) /\ WellFormedId(sanitized.rec.id)
    /\ pc = "second" /\ draft2.id = Undefined /\ sanitized2.kind = "ok"
          => GeneratedId(sanitized2.rec.id) /\ WellFormedId(sanitized2.rec.id)

C9_Witness ==
    /\ pc = "second"
    /\ draft.id = Undefined
    /\ draft2.id = Undefined
    /\ sanitized.kind = "ok"
    /\ sanitized2.kind = "ok"
    /\ sanitized.rec.id # sanitized2.rec.id

----------------------------------------------------------------------------
(* Properties of the profile store, under Spec *)

C4_CeilingNeverExceeded == existingLength <= MAX_PROFILES

\* C5: with MAX_PROFILES records stored, saving a draft (of the declared types)
\* under the id of a stored record succeeds, replaces that record and leaves the
\* number of records unchanged.
C5_UpdateExemptFromCeiling ==
    last.op = "save" /\ last.existed /\ last.countBefore >= MAX_PROFILES /\ TypedDraft(last.draft)
       => /\ last.outcome.kind = "ok"
          /\ last.outcome.rec.id = last.draft.id
          /\ existingLength = last.countBefore
          /\ store[last.draft.id.s] = JSONstringify(last.outcome.rec)

C5_Witness ==
    /\ last.op = "save"
    /\ last.existed
    /\ last.countBefore = MAX_PROFILES
    /\ last.outcome.kind = "ok"
    /\ store[last.draft.id.s].created_at # store[last.draft.id.s].updated_at

\* C6: over the saves of one id, the stored created_at stays what the first save
\* wrote, and updated_at is the time of the latest save.
C6_CreatedAtImmutable ==
    [][ /\ \A id \in DOMAIN store \cap DOMAIN store' :
              store'[id].created_at = store[id].created_at
        /\ last'.op = "save" /\ last'.outcome.kind = "ok"
              => store'[last'.outcome.rec.id.s].updated_at = toISOString(clock')
      ]_vars

\* C10 as stated: a draft that supplies an empty id is rejected with the
\* invalid-identifier error.
C10_EmptyIdRejected ==
    last.op = "save" /\ last.draft.id = Str(<<>>) /\ TypedDraft(last.draft)
       => last.outcome.kind = "InvalidIdentifier"

\* C10, amended: a draft that supplies an empty id is treated as a draft without
\* one. It is never rejected as an invalid identifier: at the ceiling it is rejected
\* with the record-limit error, and below it a draft of the declared types is saved
\* under an id that generateUUID drew.
C10_EmptyIdGetsGeneratedId ==
    last.op = "save" /\ last.draft.id = Str(<<>>)
       => /\ last.outcome.kind # "InvalidIdentifier"
          /\ last.outcome.kind = "RecordLimitExceeded" <=> last.countBefore >= MAX_PROFILES
          /\ last.outcome.kind = "ok"
                => /\ GeneratedId(last.outcome.rec.id)
                   /\ store[last.outcome.rec.id.s] = JSONstringify(last.outcome.rec)
          /\ TypedDraft(last.draft) /\ last.countBefore < MAX_PROFILES
                => last.outcome.kind = "ok"

C10_Witness ==
    /\ last.op = "save"
    /\ last.draft.id = Str(<<>>)
    /\ last.outcome.kind = "ok"
    /\ GeneratedId(last.outcome.rec.id)
    /\ existingLength = last.countBefore + 1

----------------------------------------------------------------------------
(* Enum coercion of sanitizeProfile, under SpecSanitize *)

\* The draft with its four enum properties removed.
WithoutEnums(d) ==
    [d EXCEPT !.target_os = Undefined, !.proxy.type = Undefined, !.webrtc.mode = Undefined,
              !.screen.color_depth = Undefined]

\* C11: each enum field of the sanitized record is the input value when that value
\* is exactly a member of the allowed set and the fixed default otherwise
\* (target_os: windows, proxy.type: none, webrtc.mode: default, color_depth: 24),
\* and no value of an enum property makes sanitizeProfile fail.
C11_EnumCoercion ==
    pc # "start"
       => /\ sanitized.kind = "ok"
                => /\ sanitized.rec.target_os =
                         IF draft.target_os.t = "string" /\ draft.target_os.s \in validOS
                         THEN draft.target_os ELSE Str(S_windows)
                   /\ sanitized.rec.proxy.type =
                         IF draft.proxy.type.t = "string" /\ draft.proxy.type.s \in validProxyTypes
                         THEN draft.proxy.type ELSE Str(S_none)
                   /\ sanitized.rec.webrtc.mode =
                         IF draft.webrtc.mode.t = "string"
                            /\ draft.webrtc.mode.s \in validWebRTCModes
                         THEN draft.webrtc.mode ELSE Str(S_default)
                   /\ sanitized.rec.screen.color_depth =
                         IF draft.screen.color_depth.t = "number"
                            /\ draft.screen.color_depth.n \in validColorDepths
                         THEN draft.screen.color_depth ELSE Num(24)
          /\ sanitized.kind = "ok" <=> ~sanitizeProfileThrows(WithoutEnums(draft))

C11_Witness ==
    /\ pc # "start"
    /\ draft.target_os = Str(<<"m", "a", "c", "o", "s", " ">>)
    /\ sanitized.kind = "ok"
    /\ sanitized.rec.target_os = Str(S_windows)

----------------------------------------------------------------------------
(* Properties of validateConsistency, under SpecConsistency *)

\* The rule table of the consistency checker: for each rule the condition under
\* which it applies to a form, its level and the field it is reported on.
RuleApplies(rule, data) ==
    CASE rule = "OS-Platform" ->
            /\ data.platform.s # <<>>
            /\ \/ data.os = Str(S_macos) /\ ~Includes(data.platform.s, S_MacIntel)
                                          /\ ~Includes(data.platform.s, S_MacPPC)
               \/ data.os = Str(S_windows) /\ ~Includes(data.platform.s, S_Win32)
                                            /\ ~Includes(data.platform.s, S_Win64)
               \/ data.os = Str(S_linux) /\ ~Includes(data.platform.s, S_Linux)
      [] rule = "OS-User-Agent" ->
            /\ data.userAgent.s # <<>>
            /\ \/ data.os = Str(S_macos) /\ ~Includes(data.userAgent.s, S_Macintosh)
                                          /\ ~Includes(data.userAgent.s, S_MacOSX)
               \/ data.os = Str(S_windows) /\ ~Includes(data.userAgent.s, S_WindowsNT)
               \/ data.os = Str(S_linux) /\ ~Includes(data.userAgent.s, S_Linux)
                                          /\ ~Includes(data.userAgent.s, S_X11)
      [] rule = "WebGL-macOS" ->
            /\ data.os = Str(S_macos)
            /\ \/ Includes(toLowerCase(data.webglRenderer.s), S_direct3d)
               \/ Includes(toLowerCase(data.webglRenderer.s), S_angle)
      [] rule = "WebGL-Windows" ->
            /\ data.os = Str(S_windows)
            /\ Includes(toLowerCase(data.webglRenderer.s), S_apple_m)
      [] rule = "macOS DPR" ->
            data.os = Str(S_macos) /\ data.devicePixelRatio.n \notin {100, 200}
      [] rule = "WebRTC/Proxy" ->
            /\ data.proxyType # Str(S_none)
            /\ data.proxyAddress.s # <<>>
            /\ data.webrtcMode = Str(S_default)

Rule(rule, level, field) == [rule |-> rule, level |-> level, field |-> field]

RuleTable ==
    << Rule("OS-Platform", "error", "platform"),
       Rule("OS-User-Agent", "error", "userAgent"),
       Rule("WebGL-macOS", "error", "webglRenderer"),
       Rule("WebGL-Windows", "error", "webglRenderer"),
       Rule("macOS DPR", "warning", "devicePixelRatio"),
       Rule("WebRTC/Proxy", "warning", "webrtcMode") >>

LevelAndField(x) == [level |-> x.level, field |-> x.field]

\* The levels and fields of the rules that apply to the form, in table order.
ExpectedIssues(data) ==
    LET applying == SelectSeq(RuleTable, LAMBDA r : RuleApplies(r.rule, data))
    IN  [i \in 1..Len(applying) |-> LevelAndField(applying[i])]

\* The levels and fields of the issues returned.
Reported(issues) == [i \in 1..Len(issues) |-> LevelAndField(issues[i])]

\* The issues reported on one of the given fields, in order.
OnFields(issues, fields) == SelectSeq(issues, LAMBDA x : x.field \in fields)

\* C12: for a record (target_os one of macos, windows, linux) validateConsistency
\* returns exactly one issue for each of the six rules whose condition holds and
\* none for the others, with the rule's level and field, in rule-table order.
C12_OneIssuePerApplyingRule ==
    pc # "start" /\ formData.os.s \in validOS
       => Reported(consistencyIssues) = ExpectedIssues(formData)

C12_Witness ==
    /\ pc = "validated"
    /\ formData.os = Str(S_macos)
    /\ Len(consistencyIssues) = 5
    /\ Reported(consistencyIssues)[1] = [level |-> "error", field |-> "platform"]
    /\ Reported(consistencyIssues)[5] = [level |-> "warning", field |-> "webrtcMode"]

\* C13: when platform, user agent and renderer are all empty, whatever the system
\* and the other fields, no issue is reported on platform, userAgent or
\* webglRenderer.
C13_BlankFieldsNeverFlagged ==
    ( /\ pc # "start"
      /\ formData.platform = Str(<<>>)
      /\ formData.userAgent = Str(<<>>)
      /\ formData.webglRenderer = Str(<<>>) )
       => OnFields(consistencyIssues, {"platform", "userAgent", "webglRenderer"}) = <<>>

C13_Witness ==
    /\ pc = "validated"
    /\ formData.platform = Str(<<>>)
    /\ formData.userAgent = Str(<<>>)
    /\ formData.webglRenderer = Str(<<>>)
    /\ formData.os = Str(S_macos)
    /\ Len(consistencyIssues) = 2

\* C14: exactly one warning is reported on webrtcMode when the proxy type is not
\* none, the proxy server is non-empty and the WebRTC mode is default, and none
\* otherwise; setting only the mode to disabled or proxy_only removes exactly that
\* warning and leaves the other issues as they were.
C14_WebrtcWarning ==
    [][ /\ pc' # "start"
            => OnFields(consistencyIssues', {"webrtcMode"})
                 = IF formData'.proxyType # Str(S_none) /\ formData'.proxyAddress.s # <<>>
                      /\ formData'.webrtcMode = Str(S_default)
                   THEN << consistencyIssues'[Len(consistencyIssues')] >>
                   ELSE <<>>
        /\ pc' # "start" /\ OnFields(consistencyIssues', {"webrtcMode"}) # <<>>
            => consistencyIssues'[Len(consistencyIssues')].level = "warning"
        /\ pc = "validated" /\ pc' = "changed"
            => /\ OnFields(consistencyIssues', {"webrtcMode"}) = <<>>
               /\ consistencyIssues'
                     = SelectSeq(consistencyIssues, LAMBDA x : x.field # "webrtcMode")
      ]_vars

C14_Witness ==
    /\ pc = "changed"
    /\ formData.proxyType = Str(S_socks5)
    /\ formData.proxyAddress = Str(S_ProxyServer)
    /\ formData.webrtcMode = Str(S_disabled)
    /\ Len(consistencyIssues) = 4
    /\ OnFields(consistencyIssues, {"webrtcMode"}) = <<>>

\* C15: an error is reported on webglRenderer exactly when the system is macos and
\* the renderer, in lower case, contains "direct3d" or "angle", or the system is
\* windows and the renderer, in lower case, contains "apple m"; there is never
\* more than one.
C15_WebglError ==
    pc # "start"
       => LET onRenderer == OnFields(consistencyIssues, {"webglRenderer"}) IN
          /\ Len(onRenderer) <= 1
          /\ \A i \in 1..Len(onRenderer) : onRenderer[i].level = "error"
          /\ Len(onRenderer) = 1
                <=> \/ /\ formData.os = Str(S_macos)
                       /\ \/ Includes(toLowerCase(formData.webglRenderer.s), S_direct3d)
                          \/ Includes(toLowerCase(formData.webglRenderer.s), S_angle)
                    \/ /\ formData.os = Str(S_windows)
                       /\ Includes(toLowerCase(formData.webglRenderer.s), S_apple_m)

C15_Witness ==
    /\ pc = "validated"
    /\ formData.os = Str(S_windows)
    /\ formData.webglRenderer = Str(S_AppleM2Upper)
    /\ Len(OnFields(consistencyIssues, {"webglRenderer"})) = 1

----------------------------------------------------------------------------
(* Properties of the new-profile wizard, under SpecWizard *)

\* C16: handleCreate never runs from a form for which validateConsistency returns
\* an error-level issue; the issues the create button reads are those of the
\* current form.
C16_CreateOnlyWithoutErrors ==
    /\ consistencyIssues = validateConsistency(formData)
    /\ submitted.done => ~submitted.withError

C16_Witness ==
    /\ submitted.done
    /\ page = "profiles"
    /\ Len(localStorage) = 1
    /\ localStorage[1].target_os = Str(S_macos)
    /\ localStorage[1].navigator.platform = Str(S_MacIntel)

\* The screen of a record is within the declared ranges (the ratio in hundredths).
ScreenInRange(r) ==
    /\ InRange(r.screen.width, 100, 10000)
    /\ InRange(r.screen.height, 100, 10000)
    /\ InRange(r.screen.avail_width, 100, 10000)
    /\ InRange(r.screen.avail_height, 100, 10000)
    /\ InRange(r.screen.device_pixel_ratio, 50, 400)

\* C18: every record persisted by a creation path, the wizard's included, has its
\* screen dimensions in [100, 10000] and its device pixel ratio in [0.5, 4].
C18_PersistedScreenInRange ==
    /\ \A i \in 1..Len(localStorage) : ScreenInRange(localStorage[i])
    /\ \A k \in DOMAIN store : ScreenInRange(JSONparse(store[k]))

\* C19: a profile the wizard created is in the profile store, and a listing the
\* profiles page has loaded contains it.
C19_CreatedProfileListed ==
    \A i \in 1..Len(localStorage) :
       /\ Stored(localStorage[i].id)
       /\ ~profiles.isLoading => localStorage[i].id \in profiles.ids

----------------------------------------------------------------------------
(* Properties of the store's HTTP creation path, under Spec *)

\* The form the checker's rules read, for a record: the fields handleCreate
\* copies into the record, read back.
FormOf(r) ==
    [initialFormData EXCEPT
        !.os = r.target_os,
        !.platform = r.navigator.platform,
        !.userAgent = r.navigator.user_agent,
        !.oscpu = r.navigator.oscpu,
        !.screenWidth = r.screen.width,
        !.screenHeight = r.screen.height,
        !.devicePixelRatio = r.screen.device_pixel_ratio,
        !.webglVendor = r.webgl.vendor,
        !.webglRenderer = r.webgl.renderer,
        !.timezone = r.locale.timezone,
        !.proxyType = r.proxy.type,
        !.proxyAddress = r.proxy.server,
        !.webrtcMode = r.webrtc.mode]

\* C17: no record in the profile store has an error-level consistency issue.
C17_StoredRecordsConsistent ==
    \A k \in DOMAIN store : ~someError(validateConsistency(FormOf(JSONparse(store[k]))))

\* C20: when saveProfile has returned a record r, loadProfile(r.id) returns a
\* record equal to r in every field.
C20_SaveLoadRoundTrip ==
    last.op = "save" /\ last.outcome.kind = "ok"
       => loadProfile(last.outcome.rec.id) = Returned(last.outcome.rec)

----------------------------------------------------------------------------
(* Identifiers of the stored records, under SpecArrayId *)

\* C21: each file saveProfile wrote holds a record whose id is a non-empty string
\* free of "..", "/" and "\", equal to the name of the file; hence no two stored
\* records share an id.
C21_StoredIdsWellFormed ==
    \A k \in DOMAIN store :
       /\ WellFormedId(JSONparse(store[k]).id)
       /\ JSONparse(store[k]).id = Str(k)
       /\ \A k2 \in DOMAIN store : JSONparse(store[k2]).id = JSONparse(store[k]).id => k2 = k

----------------------------------------------------------------------------
(* Deletion and rejected saves, under Spec *)

\* C24: deleteProfile(id) returns true exactly when a record was stored under id;
\* then the file is gone, so that loadProfile(id) returns null, and every other
\* record is as before. Otherwise it returns false and the store is as before.
C24_DeleteFrame ==
    [][ last'.op = "delete"
          => LET id == last'.draft.id IN
             /\ last'.outcome.kind = "true" <=> id.s \in DOMAIN store
             /\ last'.outcome.kind = "true"
                   => /\ DOMAIN store' = DOMAIN store \ {id.s}
                      /\ \A k \in DOMAIN store' : store'[k] = store[k]
                      /\ WellFormedId(id)
                      /\ ~(id.s \in DOMAIN store')
             /\ last'.outcome.kind = "false" => store' = store
             /\ otherFiles' = otherFiles
      ]_vars

C24_Witness ==
    /\ last.op = "delete"
    /\ last.outcome.kind = "true"
    /\ last.draft.id = Str(<<"p", "1">>)
    /\ last.existed
    /\ Cardinality(DOMAIN store) = 2

\* C26: a saveProfile call rejected for its id or for the record ceiling writes
\* nothing: the stored records and their contents are as before the call.
C26_RejectedSaveWritesNothing ==
    [][ last'.op = "save" /\ last'.outcome.kind \in {"InvalidIdentifier", "RecordLimitExceeded"}
          => store' = store /\ otherFiles' = otherFiles
      ]_vars

C26_Witness ==
    /\ last.op = "save"
    /\ last.outcome.kind = "RecordLimitExceeded"
    /\ last.countBefore >= MAX_PROFILES
    /\ Cardinality(DOMAIN store) = 2

----------------------------------------------------------------------------
(* Defaults of the available screen size, under SpecSanitize *)

\* The draft's height, 1080 when the draft has none.
HeightOrDefault(d) == IF d.screen.height = Undefined THEN 1080 ELSE d.screen.height.n

\* C27: for a draft of the declared types without avail_width, the sanitized
\* avail_width is the sanitized width; without avail_height, the sanitized
\* avail_height is the draft's height (1080 if absent) minus 40, clamped into
\* [100, 10000], and is not greater than the sanitized height.
C27_AvailDefaults ==
    pc # "start" /\ TypedDraft(draft) /\ sanitized.kind = "ok"
       => /\ draft.screen.avail_width = Undefined
                => sanitized.rec.screen.avail_width = sanitized.rec.screen.width
          /\ draft.screen.avail_height = Undefined
                => /\ sanitized.rec.screen.avail_height
                        = Num(Clamp(HeightOrDefault(draft) - 40, 100, 10000))
                   /\ sanitized.rec.screen.avail_height.n <= sanitized.rec.screen.height.n

----------------------------------------------------------------------------
(* The checker before and after sanitizeProfile, under SpecSanitize *)

\* C30: when validateConsistency reports no error-level issue for a draft, it
\* reports none for the record sanitizeProfile returns for it.
C30_SanitizeIntroducesNoError ==
    pc # "start" /\ TypedDraft(draft) /\ sanitized.kind = "ok"
         /\ ~someError(validateConsistency(FormOf(draft)))
       => ~someError(validateConsistency(FormOf(sanitized.rec)))

----------------------------------------------------------------------------
(* Templates and presets of the wizard, under SpecTemplates *)

\* C28: a form reached from the initial form by template cards and preset
\* selections alone has no error-level consistency issue.
C28_TemplatesGiveNoError ==
    /\ consistencyIssues = validateConsistency(formData)
    /\ ~someError(consistencyIssues)

----------------------------------------------------------------------------
(* Concurrent requests, under SpecRequests *)

\* C22: when the two saveProfile calls have returned records for the same id (and
\* no delete has run), the file of that id holds exactly the record one of them
\* returned.
C22_ConcurrentWritesSerialized ==
    /\ \A s \in Savers : savers[s].pc = "done" /\ savers[s].outcome.kind = "ok"
    /\ savers["first"].outcome.rec.id = savers["second"].outcome.rec.id
    /\ deleter.pc = "idle"
    => LET key == savers["first"].outcome.rec.id.s IN
       /\ key \in DOMAIN disk
       /\ disk[key] \in {<<JSONstringify(savers[s].outcome.rec)>> : s \in Savers}

\* C23: when the run request starts the launcher, the file of the record is there.
C23_LaunchOnlyStoredRecord == runner.pc = "spawned" => runner.present

\* C25: when every save was made without an id, listProfiles never finds more than
\* MAX_PROFILES records.
C25_ConcurrentCreationsRespectCeiling ==
    (\A s \in Savers : ~Truthy(savers[s].draft.id)) => listedLength <= MAX_PROFILES

----------------------------------------------------------------------------
(* Run clicks of the profiles page, under SpecRunPage *)

\* C29: for each profile id at most one launch request is in flight; while a
\* request is in flight or its timer is pending the id is in runningProfiles, and
\* a Run click on it sends no further request.
C29_OneLaunchInFlight ==
    \A id \in RunIds :
       /\ launchRequests[id] + removalTimers[id] <= 1
       /\ launchRequests[id] + removalTimers[id] = 1 <=> id \in runningProfiles

C29_Witness ==
    /\ lastRun = [id |-> <<"p", "1">>, sent |-> FALSE]
    /\ launchRequests[<<"p", "1">>] = 1
    /\ launchRequests[<<"p", "2">>] = 1
    /\ removalTimers[<<"p", "3">>] = 1

====
